---- MODULE Spec2Model ----
(***************************************************************************)
(* A model of the NexoWatt multi-use adapter's control core:               *)
(*   - ChargingManagementModule.tick  (budget resolver, priority           *)
(*     allocation, W<->A conversion, stepping, ramp limiting, failsafes),  *)
(*   - PeakShavingModule.tick         (limit, violation, state machine),   *)
(*   - the scheduler                  (setInterval + ModuleManager.tick).  *)
(*                                                                         *)
(* Units.  Power is in W.  Current is in tenths of an ampere (the code's   *)
(* rounding quantum, Math.floor(a * 10) / 10), so the arithmetic of the    *)
(* code is exact integer arithmetic here.  Time is in seconds.             *)
(* JS floating-point rounding error is not modelled.                       *)
(***************************************************************************)
EXTENDS Integers, Sequences, FiniteSets, TLC

\* ------------------------------------------------------------------------
\* JS values
\* ------------------------------------------------------------------------

\* null / undefined / NaN: "no number"
Null == -1000000000

\* Number.POSITIVE_INFINITY
Infinity == 1000000000

\* the JS value null as a cached raw value (getRaw returns it for a key
\* without a cached state too)
JsNull == -999999999

\* Number(raw): null converts to 0, a number to itself, and Null stands for
\* every raw value that converts to NaN (undefined, a text that is no number)
NumberOf(raw) == IF raw = JsNull THEN 0 ELSE raw

\* Number.isFinite
IsFinite(x) == x # Null /\ x # Infinity

Min(a, b) == IF a <= b THEN a ELSE b

Max(a, b) == IF a >= b THEN a ELSE b

\* Math.floor(n / d) and Math.ceil(n / d) for n >= 0, d > 0
FloorDiv(n, d) == n \div d

CeilDiv(n, d) == (n + d - 1) \div d

\* tenths of an ampere per ampere (the "* 10) / 10" of the code)
AScale == 10

\* clamp(n, min, max); the code's bounds are always finite numbers
clamp(n, lo, hi) == IF ~IsFinite(n) THEN n ELSE Min(hi, Max(lo, n))

\* num(v, fallback)
num(v, fallback) == IF IsFinite(v) THEN v ELSE fallback

\* floorToStep(value, step): always rounds down
floorToStep(value, step) ==
    IF ~IsFinite(value) THEN value
    ELSE IF ~IsFinite(step) \/ step <= 0 THEN value
    ELSE FloorDiv(value, step) * step

\* a mutant of rampUp that limits in both directions
rampUpSymmetric(prevValue, targetValue, maxDeltaUp) ==
    IF ~IsFinite(targetValue) THEN targetValue
    ELSE IF ~IsFinite(maxDeltaUp) \/ maxDeltaUp <= 0 THEN targetValue
    ELSE IF ~IsFinite(prevValue) THEN targetValue
    ELSE IF targetValue > prevValue + maxDeltaUp THEN prevValue + maxDeltaUp
    ELSE IF targetValue < prevValue - maxDeltaUp THEN prevValue - maxDeltaUp
    ELSE targetValue

\* rampUp(prevValue, targetValue, maxDeltaUp): limits increases only
rampUp(prevValue, targetValue, maxDeltaUp) ==
    IF ~IsFinite(targetValue) THEN targetValue
    ELSE IF ~IsFinite(maxDeltaUp) \/ maxDeltaUp <= 0 THEN targetValue
    ELSE IF ~IsFinite(prevValue) THEN targetValue
    ELSE IF targetValue <= prevValue THEN targetValue
    ELSE IF targetValue > prevValue + maxDeltaUp THEN prevValue + maxDeltaUp
    ELSE targetValue

\* availabilityReason(enabled, online)
availabilityReason(enabled, online) ==
    IF ~enabled THEN "DISABLED" ELSE IF ~online THEN "OFFLINE" ELSE "SKIPPED"

\* amperes (tenths) to watts: a * vFactor
AmpsToW(a, vFactor) == (a * vFactor) \div AScale

\* ------------------------------------------------------------------------
\* Charging management: configuration
\* ------------------------------------------------------------------------

\* the keys of the configured wallboxes (cfg.wallboxes), in the order of
\* String.localeCompare on their safe keys
WbKeys == {1, 2}

\* upper clamp of configured currents: 2000 A, in tenths of A
MaxCurrentClamp == 20000

\* upper clamp of configured powers (1e12 W in the code; a 32-bit stand-in
\* above every power of the model)
MaxPowerClamp == 999999999

\* DEFAULT_DC_MAX_W
DefaultDcMaxW == 1000000

\* cfg.wallboxes[i] as configured by the admin (currents in tenths of A).
\* hasSetA/hasSetW/hasEnable/hasStatus/hasActualPower: the datapoint id is set.
WbAc3pCurrent ==
    [enabled |-> TRUE, chargerType |-> "AC", controlBasis |-> "auto", phases |-> 3,
     priority |-> Null, minA |-> 60, maxA |-> 160, minPowerW |-> Null, maxPowerW |-> Null,
     hasSetA |-> TRUE, hasSetW |-> FALSE, hasEnable |-> TRUE,
     hasStatus |-> TRUE, hasActualPower |-> TRUE]

WbAc1pPower ==
    [enabled |-> TRUE, chargerType |-> "AC", controlBasis |-> "powerW", phases |-> 1,
     priority |-> Null, minA |-> 60, maxA |-> 160, minPowerW |-> Null, maxPowerW |-> Null,
     hasSetA |-> FALSE, hasSetW |-> TRUE, hasEnable |-> FALSE,
     hasStatus |-> FALSE, hasActualPower |-> FALSE]

WbDcPower ==
    [enabled |-> TRUE, chargerType |-> "DC", controlBasis |-> "auto", phases |-> 3,
     priority |-> 1, minA |-> 60, maxA |-> 160, minPowerW |-> 5000, maxPowerW |-> 20000,
     hasSetA |-> FALSE, hasSetW |-> TRUE, hasEnable |-> FALSE,
     hasStatus |-> FALSE, hasActualPower |-> FALSE]

WbDcCurrent ==
    [enabled |-> TRUE, chargerType |-> "DC", controlBasis |-> "currentA", phases |-> 3,
     priority |-> Null, minA |-> 60, maxA |-> 160, minPowerW |-> Null, maxPowerW |-> Null,
     hasSetA |-> TRUE, hasSetW |-> FALSE, hasEnable |-> FALSE,
     hasStatus |-> FALSE, hasActualPower |-> FALSE]

WbNoSetpoint ==
    [enabled |-> TRUE, chargerType |-> "AC", controlBasis |-> "auto", phases |-> 3,
     priority |-> Null, minA |-> 60, maxA |-> 160, minPowerW |-> Null, maxPowerW |-> Null,
     hasSetA |-> FALSE, hasSetW |-> FALSE, hasEnable |-> FALSE,
     hasStatus |-> FALSE, hasActualPower |-> FALSE]

WbDisabled == [WbAc1pPower EXCEPT !.enabled = FALSE]

\* effective control basis of a wallbox (tick, "Determine effective control basis")
EffectiveControlBasis(wb) ==
    LET b1 == IF wb.controlBasis = "currentA"
                THEN (IF wb.hasSetA THEN "currentA"
                      ELSE IF wb.hasSetW THEN "powerW" ELSE "auto")
              ELSE IF wb.controlBasis = "powerW"
                THEN (IF wb.hasSetW THEN "powerW"
                      ELSE IF wb.hasSetA THEN "currentA" ELSE "auto")
              ELSE wb.controlBasis
    IN IF b1 # "auto" THEN b1
       ELSE IF wb.chargerType = "DC"
         THEN (IF wb.hasSetW THEN "powerW" ELSE IF wb.hasSetA THEN "currentA" ELSE "none")
         ELSE (IF wb.hasSetA THEN "currentA" ELSE IF wb.hasSetW THEN "powerW" ELSE "none")

\* "if (maxPW < minPW) minPW = maxPW"
CapMinPW(minP, maxP) == IF maxP < minP THEN maxP ELSE minP

\* DC: min/max power from the configured powers
WbBoundsDC(basis, vFactor, minA, maxA, minCfg, maxCfg) ==
    [controlBasis |-> basis, vFactor |-> vFactor, minA |-> minA, maxA |-> maxA,
     minPW |-> CapMinPW(IF IsFinite(minCfg) THEN minCfg ELSE 0,
                        IF IsFinite(maxCfg) /\ maxCfg > 0 THEN maxCfg ELSE DefaultDcMaxW),
     maxPW |-> IF IsFinite(maxCfg) /\ maxCfg > 0 THEN maxCfg ELSE DefaultDcMaxW]

\* AC: explicit powers only when controlling by power, else from the currents
AcPowerW(basis, configuredW, fromA) ==
    IF basis = "powerW" /\ IsFinite(configuredW) /\ configuredW > 0
    THEN configuredW ELSE fromA

\* AC: the practical 3-phase minimum
AcMin3p(cfg, phases, minP) ==
    IF phases = 3 /\ cfg.acMinPower3pW > 0 THEN Max(minP, cfg.acMinPower3pW) ELSE minP

\* AC: "Quantize min power to 0.1A steps for current-based control"
AcQuantized(basis, vFactor, minA, maxA, minP, maxP) ==
    IF basis = "currentA" /\ vFactor > 0 /\ minP > 0
       /\ CeilDiv(minP * AScale, vFactor) > 0
    THEN [controlBasis |-> basis, vFactor |-> vFactor,
          minA |-> Max(minA, CeilDiv(minP * AScale, vFactor)), maxA |-> maxA,
          minPW |-> AmpsToW(CeilDiv(minP * AScale, vFactor), vFactor), maxPW |-> maxP]
    ELSE [controlBasis |-> basis, vFactor |-> vFactor, minA |-> minA, maxA |-> maxA,
          minPW |-> minP, maxPW |-> maxP]

WbBoundsAC(cfg, phases, basis, vFactor, minA, maxA, minP, maxP) ==
    AcQuantized(basis, vFactor, minA, maxA,
                AcMin3p(cfg, phases, CapMinPW(minP, maxP)), maxP)

\* min/max power caps and the quantized minimum current of a wallbox
\* (tick, "Compute min/max power caps for distribution (W)")
WbBoundsOf(cfg, wb, basis, vFactor, minA, maxA, minCfg, maxCfg) ==
    IF wb.chargerType = "DC"
    THEN WbBoundsDC(basis, vFactor, minA, maxA, minCfg, maxCfg)
    ELSE WbBoundsAC(cfg, wb.phases, basis, vFactor, minA, maxA,
                    AcPowerW(basis, minCfg, AmpsToW(Max(0, minA), vFactor)),
                    AcPowerW(basis, maxCfg, AmpsToW(Max(0, maxA), vFactor)))

WbBounds(cfg, wb) ==
    WbBoundsOf(cfg, wb, EffectiveControlBasis(wb), cfg.voltageV * wb.phases,
               clamp(num(wb.minA, cfg.minCurrentA), 0, MaxCurrentClamp),
               clamp(num(wb.maxA, cfg.maxCurrentA), 0, MaxCurrentClamp),
               clamp(num(wb.minPowerW, Null), 0, MaxPowerClamp),
               clamp(num(wb.maxPowerW, Null), 0, MaxPowerClamp))

\* ------------------------------------------------------------------------
\* Datapoint registry reads (transforms at their defaults: scale 1, offset 0)
\* ------------------------------------------------------------------------

DpKeys == {"cm.gridPowerW", "ps.gridPowerW", "cm.budgetPowerW", "cm.pvSurplusW",
           "cm.tariffBudgetW", "cm.tariffLimitW", "cm.gridChargeAllowed"}

\* DatapointRegistry.getEntry
getEntry(cfg, k) == k \in cfg.entries

\* DatapointRegistry.getNumber(key, null): env.val is the cached raw value
getNumber(cfg, env, k) ==
    IF ~getEntry(cfg, k) THEN Null
    ELSE IF ~IsFinite(NumberOf(env.val[k])) THEN Null ELSE NumberOf(env.val[k])

\* DatapointRegistry.getAgeMs: +Infinity for an unknown or uncached key
getAgeMs(cfg, env, k) ==
    IF ~getEntry(cfg, k) THEN Infinity
    ELSE IF ~IsFinite(env.age[k]) THEN Infinity
    ELSE Max(0, env.age[k])

\* DatapointRegistry.isStale(key, maxAgeMs)
isStale(cfg, env, k, maxAge) ==
    LET age == getAgeMs(cfg, env, k)
    IN IF ~IsFinite(age) THEN TRUE
       ELSE IF ~IsFinite(maxAge) \/ maxAge <= 0 THEN age = Infinity
       ELSE age > maxAge

\* DatapointRegistry.getNumberFresh(key, maxAgeMs, null)
getNumberFresh(cfg, env, k, maxAge) ==
    IF isStale(cfg, env, k, maxAge) THEN Null ELSE getNumber(cfg, env, k)

\* getFirstDpNumber(keys): the first fresh finite number among keys (a sequence)
RECURSIVE getFirstDpNumber(_, _, _, _)
getFirstDpNumber(cfg, env, keys, maxAge) ==
    IF keys = << >> THEN Null
    ELSE LET v == getNumberFresh(cfg, env, Head(keys), maxAge)
         IN IF IsFinite(v) THEN v ELSE getFirstDpNumber(cfg, env, Tail(keys), maxAge)

\* isStateStale(id, maxAgeMs) for peakShaving.dynamic.availableForControlledW:
\* env.peakBudgetAge is Infinity when the state or its timestamp is missing
isStateStale(env, maxAge) ==
    IF ~IsFinite(env.peakBudgetAge) THEN TRUE ELSE env.peakBudgetAge > maxAge

\* _getPeakShavingBudgetW
getPeakShavingBudgetW(env) == IF IsFinite(env.peakBudget) THEN env.peakBudget ELSE Null

\* staleTimeoutSec = clamp(num(cfg.staleTimeoutSec, 15), 1, 3600)
StaleTimeoutSec(cfg) == clamp(num(cfg.staleTimeoutSec, 15), 1, 3600)

\* ------------------------------------------------------------------------
\* Charging management: budget resolver (tick, "Determine budget")
\* ------------------------------------------------------------------------

\* gridChargeAllowed (tariff gating): a stale flag blocks grid charging
GridChargeAllowed(cfg, env) ==
    IF ~getEntry(cfg, "cm.gridChargeAllowed") THEN TRUE
    ELSE IF getAgeMs(cfg, env, "cm.gridChargeAllowed") > StaleTimeoutSec(cfg) THEN FALSE
    ELSE IF env.val["cm.gridChargeAllowed"] = Null THEN TRUE
    ELSE env.val["cm.gridChargeAllowed"] # 0

EffectivePvSurplusOnly(cfg, env) ==
    cfg.pvSurplusOnly \/ cfg.mode = "pvSurplus" \/ ~GridChargeAllowed(cfg, env)

\* the PV surplus: the datapoint, else the export seen at the grid meter
PvSurplusW(pv, grid) ==
    IF IsFinite(pv) THEN pv ELSE IF IsFinite(grid) THEN Max(0, 0 - grid) ELSE Null

NonNegativeOrZero(pv) == IF IsFinite(pv) /\ pv > 0 THEN pv ELSE 0

\* pvCapW: Null unless PV-only is in force
PvCapW(cfg, env) ==
    IF ~EffectivePvSurplusOnly(cfg, env) THEN Null
    ELSE NonNegativeOrZero(
           PvSurplusW(getFirstDpNumber(cfg, env, <<"cm.pvSurplusW">>, StaleTimeoutSec(cfg)),
                      getFirstDpNumber(cfg, env, <<"cm.gridPowerW", "ps.gridPowerW">>,
                                       StaleTimeoutSec(cfg))))

\* staticMaxChargingPowerW as used by the budget resolver
StaticMaxW(cfg) == clamp(num(cfg.staticMaxChargingPowerW, 0), 0, MaxPowerClamp)

\* the external budget datapoint, Null when it is not configured
ExternalBudgetW(cfg, env) ==
    IF cfg.hasBudgetPowerId THEN getNumber(cfg, env, "cm.budgetPowerW") ELSE Null

\* one cap of budget mode 'engine': taken when finite and > 0
Component(name, w) == IF IsFinite(w) /\ w > 0 THEN {[k |-> name, w |-> w]} ELSE {}

\* the caps of budget mode 'engine', as a set of [k, w]
EngineComponents(cfg, env) ==
         Component("static", StaticMaxW(cfg))
    \cup Component("external", ExternalBudgetW(cfg, env))
    \cup Component("peakShaving", getPeakShavingBudgetW(env))
    \cup Component("tariff",
                   getFirstDpNumber(cfg, env, <<"cm.tariffBudgetW", "cm.tariffLimitW">>,
                                    StaleTimeoutSec(cfg)))
    \cup (IF EffectivePvSurplusOnly(cfg, env) /\ IsFinite(PvCapW(cfg, env))
            THEN {[k |-> "pvSurplus", w |-> PvCapW(cfg, env)]} ELSE {})

\* minimum of a finite set of numbers, Infinity for the empty set
SetMin(S) == IF S = {} THEN Infinity ELSE CHOOSE x \in S : \A y \in S : x <= y

\* a budget source: used when finite and > 0, else unlimited
PositiveOrInfinity(b) == IF IsFinite(b) /\ b > 0 THEN b ELSE Infinity

\* budgetW by budget mode, before the PV cap
ModeBudgetW(cfg, env) ==
    CASE cfg.totalBudgetMode = "engine" ->
           SetMin({c.w : c \in EngineComponents(cfg, env)})
      [] cfg.totalBudgetMode = "static" -> PositiveOrInfinity(StaticMaxW(cfg))
      [] cfg.totalBudgetMode = "fromDatapoint" ->
           PositiveOrInfinity(ExternalBudgetW(cfg, env))
      [] cfg.totalBudgetMode = "fromPeakShaving" ->
           PositiveOrInfinity(getPeakShavingBudgetW(env))
      [] OTHER -> Infinity

\* "enforce PV cap for ALL budget modes"
CapByPv(b, pvOnly, pvCap) ==
    IF pvOnly /\ IsFinite(pvCap) THEN Max(0, Min(b, Max(0, pvCap))) ELSE b

\* budgetW
BudgetW(cfg, env) ==
    CapByPv(ModeBudgetW(cfg, env), EffectivePvSurplusOnly(cfg, env), PvCapW(cfg, env))

\* ------------------------------------------------------------------------
\* Charging management: per-wallbox measurement, online and session tracking
\* ------------------------------------------------------------------------

\* online detection: the status datapoint if configured, else "enabled"
WbOnline(wb, env, k) == IF wb.hasStatus THEN env.online[k] ELSE wb.enabled

\* pWNum: the measured power, 0 when there is none
WbActualPowerW(wb, env, k) ==
    IF wb.hasActualPower /\ IsFinite(env.pW[k]) THEN env.pW[k] ELSE 0

Abs(x) == IF x < 0 THEN 0 - x ELSE x

\* isChargingRaw = online && enabled && |pW| >= activityThresholdW
IsChargingRaw(cfg, wb, online, pWNum) ==
    online /\ wb.enabled /\ Abs(pWNum) >= cfg.activityThresholdW

\* sessionKeepMs = max(sessionKeepSec, stopGraceSec)
SessionKeep(cfg) == Max(cfg.sessionKeepSec, cfg.stopGraceSec)

\* sessionCleanupStaleMs = max(sessionKeepMs * 2, 30 min)
SessionCleanupStale(cfg) == Max(SessionKeep(cfg) * 2, 30 * 60)

\* a map entry read as the code reads it: 0 unless a finite number > 0
EntryOrZero(e) == IF IsFinite(e) /\ e > 0 THEN e ELSE 0

NoSession == [cs |-> 0, la |-> 0]

\* a session update that dates a continued session one second back
SessionBackdated(cfg, wb, online, raw, t, cs0, la0) ==
    IF ~wb.enabled THEN NoSession
    ELSE IF raw
      THEN [cs |-> IF cs0 = 0 \/ la0 = 0 \/ (t - la0) > SessionKeep(cfg) THEN t
                   ELSE Max(1, cs0 - 1),
            la |-> t]
    ELSE IF cs0 # 0 /\ la0 # 0 THEN [cs |-> cs0, la |-> la0]
    ELSE NoSession

\* "Session tracking / stickiness": chargingSince (cs) and lastActive (la)
\* after the update, 0/0 when the map entries are deleted
SessionUpdate(cfg, wb, online, raw, t, cs0, la0) ==
    IF ~wb.enabled THEN NoSession
    ELSE IF raw
      THEN [cs |-> IF cs0 = 0 \/ la0 = 0 \/ (t - la0) > SessionKeep(cfg) THEN t ELSE cs0,
            la |-> t]
    ELSE IF cs0 # 0 /\ la0 # 0
      THEN (IF (t - la0) > SessionKeep(cfg) \/ (~online /\ (t - la0) > cfg.stopGraceSec)
            THEN NoSession ELSE [cs |-> cs0, la |-> la0])
    ELSE NoSession

\* isCharging
IsCharging(cfg, wb, online, raw, t, ses) ==
    online /\ wb.enabled
    /\ (raw \/ (ses.cs # 0 /\ ses.la # 0 /\ (t - ses.la) <= cfg.stopGraceSec))

\* the wbList entry of wallbox k, from its configuration row wb, its bounds b,
\* its online flag and its session ses
WbEntryOf(k, wb, b, online, charging, ses) ==
    [key |-> k, enabled |-> wb.enabled, online |-> online,
     charging |-> charging, chargingSinceMs |-> IF charging THEN ses.cs ELSE 0,
     since |-> IF ses.cs = 0 THEN Null ELSE ses.cs,
     active |-> IF ses.la = 0 THEN Null ELSE ses.la,
     priority |-> clamp(num(wb.priority, 999), 1, 999),
     chargerType |-> wb.chargerType, controlBasis |-> b.controlBasis,
     vFactor |-> b.vFactor, minA |-> b.minA, maxA |-> b.maxA,
     minPW |-> b.minPW, maxPW |-> b.maxPW,
     hasSetA |-> wb.hasSetA, hasSetW |-> wb.hasSetW, hasEnable |-> wb.hasEnable]

WbEntrySession(cfg, k, wb, online, raw, t, ses) ==
    WbEntryOf(k, wb, WbBounds(cfg, wb), online,
              IsCharging(cfg, wb, online, raw, t, ses), ses)

WbEntryOnline(cfg, k, wb, online, pWNum, t, cs0, la0) ==
    WbEntrySession(cfg, k, wb, online, IsChargingRaw(cfg, wb, online, pWNum), t,
                   SessionUpdate(cfg, wb, online, IsChargingRaw(cfg, wb, online, pWNum),
                                 t, cs0, la0))

\* one iteration of the wallbox loop: since/active carry the new entries of
\* _chargingSinceMs / _chargingLastActiveMs (Null: deleted)
WbEntry(cfg, env, k, t, sinceMap, activeMap) ==
    WbEntryOnline(cfg, k, cfg.wallboxes[k], WbOnline(cfg.wallboxes[k], env, k),
                  WbActualPowerW(cfg.wallboxes[k], env, k), t,
                  EntryOrZero(sinceMap[k]), EntryOrZero(activeMap[k]))

\* ------------------------------------------------------------------------
\* Charging management: priority order
\* ------------------------------------------------------------------------

\* a comparator that takes no session start into account
SinceIgnored(ms) == Infinity

\* chargingSinceMs as the comparator reads it
SinceOrInfinity(ms) == IF ms > 0 THEN ms ELSE Infinity

\* a comparator that ends at the priority: equal priorities compare equal
SortsBeforeNoKey(a, b) ==
    IF a.charging # b.charging THEN a.charging
    ELSE IF SinceOrInfinity(a.chargingSinceMs) # SinceOrInfinity(b.chargingSinceMs)
      THEN SinceOrInfinity(a.chargingSinceMs) < SinceOrInfinity(b.chargingSinceMs)
    ELSE a.priority < b.priority

\* the sort comparator: a comes strictly before b
SortsBefore(a, b) ==
    IF a.charging # b.charging THEN a.charging
    ELSE IF SinceOrInfinity(a.chargingSinceMs) # SinceOrInfinity(b.chargingSinceMs)
      THEN SinceOrInfinity(a.chargingSinceMs) < SinceOrInfinity(b.chargingSinceMs)
    ELSE IF a.priority # b.priority THEN a.priority < b.priority
    ELSE a.key < b.key

\* Array.prototype.sort is stable: key k goes behind every key of sorted
\* that the comparator does not put after it
RECURSIVE InsertSorted(_, _, _)
InsertSorted(wbs, sorted, k) ==
    IF sorted = << >> THEN <<k>>
    ELSE IF SortsBefore(wbs[k], wbs[Head(sorted)]) THEN <<k>> \o sorted
    ELSE <<Head(sorted)>> \o InsertSorted(wbs, Tail(sorted), k)

\* list.sort(...), as a sequence of keys
RECURSIVE SortList(_, _)
SortList(wbs, list) ==
    IF list = << >> THEN << >>
    ELSE InsertSorted(wbs, SortList(wbs, SubSeq(list, 1, Len(list) - 1)), list[Len(list)])

\* wbList.filter(w => w.enabled && w.online), wbList in the order of list
RECURSIVE FilterUsable(_, _)
FilterUsable(wbs, list) ==
    IF list = << >> THEN << >>
    ELSE (IF wbs[Head(list)].enabled /\ wbs[Head(list)].online THEN <<Head(list)>> ELSE << >>)
         \o FilterUsable(wbs, Tail(list))

\* sorted = wbList.filter(enabled && online).sort(...), as a sequence of keys;
\* list is the order of the wallboxes in cfg.wallboxes
SortedOrder(wbs, list) == SortList(wbs, FilterUsable(wbs, list))

\* ------------------------------------------------------------------------
\* Charging management: allocation of one consumer
\* ------------------------------------------------------------------------

\* current-based control: controlBasis === 'currentA' && w.setAKey
CurrentBased(w) == w.controlBasis = "currentA" /\ w.hasSetA

\* raw target (W) and reason from the remaining budget
RawTarget(w, remainingW) ==
    IF w.controlBasis = "none" THEN [targetW |-> 0, reason |-> "NO_SETPOINT"]
    ELSE IF ~IsFinite(remainingW) THEN [targetW |-> w.maxPW, reason |-> "UNLIMITED"]
    ELSE IF remainingW <= 0 THEN [targetW |-> 0, reason |-> "NO_BUDGET"]
    ELSE IF remainingW >= w.minPW \/ w.minPW = 0
      THEN (IF Min(remainingW, w.maxPW) > 0 /\ w.minPW > 0
               /\ Min(remainingW, w.maxPW) < w.minPW
            THEN [targetW |-> 0, reason |-> "BELOW_MIN"]
            ELSE [targetW |-> Min(remainingW, w.maxPW), reason |-> "ALLOCATED"])
    ELSE [targetW |-> 0, reason |-> "BELOW_MIN"]

\* Math.floor(clamp(targetW / vFactor, 0, maxA) * 10), in tenths of A
CurrentDown(w, targetW) ==
    IF targetW > 0 /\ w.vFactor > 0
    THEN Min(FloorDiv(targetW * AScale, w.vFactor), w.maxA) ELSE 0

\* Math.ceil(clamp(targetW / vFactor, 0, maxA) * 10), in tenths of A
CurrentUp(w, targetW) ==
    IF targetW > 0 /\ w.vFactor > 0
    THEN Min(CeilDiv(targetW * AScale, w.vFactor), w.maxA) ELSE 0

\* "Apply minA (avoid rounding-down dropping below min)": the rounded-down
\* current, or the rounded-up one when rounding down fell under minA
RoundUpRetry(w, aDown, aUp) ==
    IF aDown > 0 /\ aDown < w.minA
    THEN (IF aUp >= w.minA /\ aUp <= w.maxA THEN aUp ELSE 0)
    ELSE aDown

\* "if (aRounded < minA) aRounded = 0"
ZeroUnderMinA(w, a) == IF a < w.minA THEN 0 ELSE a

\* "Safety: enforce min power after quantization"
QuantizedTarget(w, a, reason) ==
    IF AmpsToW(a, w.vFactor) > 0 /\ w.minPW > 0 /\ AmpsToW(a, w.vFactor) < w.minPW
    THEN [targetW |-> 0, targetA |-> 0, reason |-> "BELOW_MIN"]
    ELSE [targetW |-> AmpsToW(a, w.vFactor), targetA |-> a, reason |-> reason]

\* "Convert to A for AC current-based control"; for a power-based AC charger
\* the current is informational (truncated to 0.1 A here)
ConvertToA(w, raw) ==
    IF CurrentBased(w)
    THEN QuantizedTarget(w,
             ZeroUnderMinA(w, RoundUpRetry(w, CurrentDown(w, raw.targetW),
                                           CurrentUp(w, raw.targetW))),
             raw.reason)
    ELSE [targetW |-> raw.targetW,
          targetA |-> IF w.chargerType = "AC" /\ raw.targetW > 0 /\ w.vFactor > 0
                        THEN FloorDiv(raw.targetW * AScale, w.vFactor) ELSE 0,
          reason |-> raw.reason]

\* "if (cmd > 0 && min > 0 && cmd < min) cmd = 0", before the ramp
ZeroBelowMin(x, min) == IF x > 0 /\ min > 0 /\ x < min THEN 0 ELSE x

\* a mutant of ZeroBelowMinAfterRamp that keeps the ramped value
KeepRamped(x, min) == x

\* the same check, repeated after the ramp
ZeroBelowMinAfterRamp(x, min) == IF x > 0 /\ min > 0 /\ x < min THEN 0 ELSE x

\* the command of a current-based consumer from the ramped current a
CurrentCommand(w, a, stepTarget, prevCmd) ==
    [cmdW |-> IF a > 0 /\ w.vFactor > 0 THEN AmpsToW(a, w.vFactor) ELSE 0,
     cmdA |-> a, stepTarget |-> stepTarget, prevCmd |-> prevCmd]

\* the command of a power-based consumer from the ramped power p
PowerCommand(w, p, stepTarget, prevCmd) ==
    [cmdW |-> p,
     cmdA |-> IF w.chargerType = "AC" /\ p > 0 /\ w.vFactor > 0
                THEN FloorDiv(p * AScale, w.vFactor) ELSE 0,
     stepTarget |-> stepTarget, prevCmd |-> prevCmd]

\* ramp limiting of the stepped target against the command memory
RampCurrent(cfg, w, stepTarget, prevCmdA) ==
    CurrentCommand(w,
        ZeroBelowMinAfterRamp(rampUp(prevCmdA, stepTarget, cfg.maxDeltaAPerTick), w.minA),
        stepTarget, prevCmdA)

RampPower(cfg, w, stepTarget, prevCmdW) ==
    PowerCommand(w,
        ZeroBelowMinAfterRamp(rampUp(prevCmdW, stepTarget, cfg.maxDeltaWPerTick), w.minPW),
        stepTarget, prevCmdW)

\* "Apply stepping + ramp limiting".  stepTarget is the target handed to
\* rampUp, prevCmd the command-memory entry it is compared with.
StepAndRamp(cfg, w, t, prevCmdW, prevCmdA) ==
    IF CurrentBased(w)
    THEN RampCurrent(cfg, w,
             ZeroBelowMin(clamp(floorToStep(t.targetA, cfg.stepA), 0, w.maxA), w.minA),
             prevCmdA)
    ELSE RampPower(cfg, w, ZeroBelowMin(floorToStep(t.targetW, cfg.stepW), w.minPW),
                   prevCmdW)

\* the outcome of one iteration: target t, command c
Allocation(t, c) ==
    [cmdW |-> c.cmdW, cmdA |-> c.cmdA, reason |-> t.reason,
     rawTargetW |-> t.targetW, stepTarget |-> c.stepTarget, prevCmd |-> c.prevCmd]

AllocTarget(cfg, w, t, prevCmdW, prevCmdA) ==
    Allocation(t, StepAndRamp(cfg, w, t, prevCmdW, prevCmdA))

\* one iteration of the allocation loop: the command of consumer w
AllocOne(cfg, w, remainingW, prevCmdW, prevCmdA) ==
    AllocTarget(cfg, w, ConvertToA(w, RawTarget(w, remainingW)), prevCmdW, prevCmdA)

\* a mutant of RemainingAfter that leaves the remaining budget as it is
RemainingKept(remainingW, cmdW) == remainingW

\* "Apply budget accounting (use commanded power)"
RemainingAfter(remainingW, cmdW) ==
    IF IsFinite(remainingW) THEN Max(0, remainingW - cmdW) ELSE remainingW

\* the rest of the loop after consumer Head(order) got command c
RECURSIVE Allocate(_, _, _, _, _, _)
AllocateRest(cfg, wbs, order, remainingW, lastW, lastA, c) ==
    <<c>> \o Allocate(cfg, wbs, Tail(order), RemainingAfter(remainingW, c.cmdW),
                      lastW, lastA)

\* the allocation loop over sorted: the commands, in processing order
Allocate(cfg, wbs, order, remainingW, lastW, lastA) ==
    IF order = << >> THEN << >>
    ELSE AllocateRest(cfg, wbs, order, remainingW, lastW, lastA,
                      AllocOne(cfg, wbs[Head(order)], remainingW,
                               lastW[Head(order)], lastA[Head(order)]))

\* ------------------------------------------------------------------------
\* Charging management: failsafe and pause decisions
\* ------------------------------------------------------------------------

\* staleMeter: no grid key configured, or a configured grid key is stale
StaleMeter(cfg, env) ==
    \/ ~getEntry(cfg, "cm.gridPowerW") /\ ~getEntry(cfg, "ps.gridPowerW")
    \/ \E k \in {"cm.gridPowerW", "ps.gridPowerW"} :
          getEntry(cfg, k) /\ isStale(cfg, env, k, StaleTimeoutSec(cfg))

\* staleBudget from the external budget datapoint
StaleExternalBudget(cfg, env) ==
    /\ ~StaleMeter(cfg, env)
    /\ cfg.totalBudgetMode \in {"fromDatapoint", "engine"}
    /\ cfg.hasBudgetPowerId /\ getEntry(cfg, "cm.budgetPowerW")
    /\ isStale(cfg, env, "cm.budgetPowerW", StaleTimeoutSec(cfg))

\* staleBudget: the external budget datapoint or the peak-shaving budget state
StaleBudget(cfg, env) ==
    IF ~StaleMeter(cfg, env) /\ ~StaleExternalBudget(cfg, env)
       /\ cfg.totalBudgetMode \in {"fromPeakShaving", "engine"}
       /\ (cfg.totalBudgetMode = "fromPeakShaving" \/ env.peakActive)
    THEN isStateStale(env, StaleTimeoutSec(cfg))
    ELSE StaleExternalBudget(cfg, env)

\* a mutant of StaleRelevant that ignores the age of the grid meter
StaleRelevantBudgetOnly(cfg, env) ==
    cfg.mode # "off" /\ StaleBudget(cfg, env)

\* staleRelevant = (mode !== 'off') && (staleMeter || staleBudget)
StaleRelevant(cfg, env) ==
    cfg.mode # "off" /\ (StaleMeter(cfg, env) \/ StaleBudget(cfg, env))

\* a mutant of PausedByPeakShaving that never pauses
NeverPaused(cfg, env) == FALSE

\* pausedByPeakShaving
PausedByPeakShaving(cfg, env) == cfg.pauseWhenPeakShavingActive /\ env.peakActive

\* pauseFollowPeakBudget: the pause follows the peak-shaving budget
PauseFollowPeakBudget(cfg, env) ==
    /\ cfg.pauseBehavior = "followPeakBudget"
    /\ ~isStateStale(env, StaleTimeoutSec(cfg))
    /\ IsFinite(getPeakShavingBudgetW(env))

\* the branch of tick() taken after the wallbox loop
CmPath(cfg, env) ==
    IF StaleRelevant(cfg, env) THEN "stale"
    ELSE IF cfg.mode = "off" THEN "off"
    ELSE IF PausedByPeakShaving(cfg, env) /\ ~PauseFollowPeakBudget(cfg, env) THEN "paused"
    ELSE IF PausedByPeakShaving(cfg, env) THEN "follow"
    ELSE "normal"

\* the budget the allocation loop starts from
PathBudgetW(cfg, env, path) ==
    IF path = "follow" THEN Max(0, getPeakShavingBudgetW(env)) ELSE BudgetW(cfg, env)

\* ------------------------------------------------------------------------
\* Peak shaving: sliding window, limit, phase analysis, state machine
\* (time in seconds, power in W, phase current in 0.1 A)
\* ------------------------------------------------------------------------

\* SlidingWindow.prune(nowTs): the samples older than maxSeconds leave from
\* the front
RECURSIVE prune(_, _, _)
prune(samples, maxSeconds, nowTs) ==
    IF samples # << >> /\ Head(samples).t < nowTs - maxSeconds
    THEN prune(Tail(samples), maxSeconds, nowTs)
    ELSE samples

\* SlidingWindow.setMaxSeconds(s) at the time nowTs: prunes only when the
\* length changes
setMaxSeconds(samples, maxSeconds, s, nowTs) ==
    IF s # maxSeconds THEN prune(samples, s, nowTs) ELSE samples

\* SlidingWindow.push(v, t): a value that is no number is ignored, and then
\* nothing is pruned either
push(samples, maxSeconds, v, t) ==
    IF v = Null THEN samples
    ELSE prune(Append(samples, [t |-> t, v |-> v]), maxSeconds, t)

RECURSIVE SumOf(_)
SumOf(samples) ==
    IF samples = << >> THEN 0 ELSE Head(samples).v + SumOf(Tail(samples))

\* a JS number that need not be an integer, as the fraction num / den;
\* den = 0 stands for null
Frac(n, d) == [num |-> n, den |-> d]
NoNumber == Frac(0, 0)
IsNumber(x) == x.den > 0
Whole(v) == IF v = Null THEN NoNumber ELSE Frac(v, 1)
FracMinus(x, n) == Frac(x.num - n * x.den, x.den)
FracGreater(x, y) == x.num * y.den > y.num * x.den
FracAtMost(x, n) == x.num <= n * x.den

\* SlidingWindow.mean(): null without samples
mean(samples) == Frac(SumOf(samples), Len(samples))

\* the window lengths the tick sets: clamp(num(cfg.smoothingSeconds, 10), 1, 600)
SmoothingSeconds(cfg) == clamp(num(cfg.smoothingSeconds, 10), 1, 600)

\* effPower: the window mean when averaging and there is one, else the raw value
EffPower(useAverage, avgPower, gridPowerRaw) ==
    IF useAverage /\ IsNumber(avgPower) THEN avgPower ELSE Whole(gridPowerRaw)

\* a configured limit (> 0), else +Infinity
LimitOrInfinity(w) == IF IsFinite(w) /\ w > 0 THEN w ELSE Infinity

\* limitW = cap - max(0, reserveW), 0 when that is not finite
DynamicLimitOf(cap, reserveW) ==
    IF cap = Infinity THEN 0 ELSE cap - Max(0, reserveW)

\* "Determine power limit", dynamic mode: cap = min(baseMax, allowed)
DynamicLimitW(maxPowerW, allowedPowerW, reserveW) ==
    DynamicLimitOf(Min(LimitOrInfinity(maxPowerW), LimitOrInfinity(allowedPowerW)),
                   reserveW)

\* "Determine power limit"
LimitW(cfg, allowedPowerW) ==
    IF cfg.mode = "dynamic"
    THEN DynamicLimitW(num(cfg.maxPowerW, 0), allowedPowerW, num(cfg.reserveW, 0))
    ELSE IF num(cfg.maxPowerW, 0) > 0 THEN num(cfg.maxPowerW, 0) ELSE 0

\* the phase currents the analysis looks at: window means when averaging,
\* else the raw values
PhaseValues(useAverage, winPhase, raw) ==
    <<IF useAverage THEN mean(winPhase[1]) ELSE Whole(raw[1]),
      IF useAverage THEN mean(winPhase[2]) ELSE Whole(raw[2]),
      IF useAverage THEN mean(winPhase[3]) ELSE Whole(raw[3])>>

PhaseNames == <<"L1", "L2", "L3">>

\* one step of the loop over the phases: p takes over when its excess is
\* greater than the best so far
BetterPhase(best, k, v, maxPhaseA) ==
    IF IsNumber(v) /\ FracGreater(FracMinus(v, maxPhaseA), best.over)
    THEN [k |-> k, over |-> FracMinus(v, maxPhaseA)]
    ELSE best

\* "Phase analysis": worst phase and its excess over maxPhaseA (0 when none)
WorstPhase(ls, maxPhaseA) ==
    IF maxPhaseA > 0
    THEN BetterPhase(BetterPhase(BetterPhase([k |-> "", over |-> Frac(0, 1)],
                                             "L1", ls[1], maxPhaseA),
                                 "L2", ls[2], maxPhaseA),
                     "L3", ls[3], maxPhaseA)
    ELSE [k |-> "", over |-> Frac(0, 1)]

\* overW = effPower - limitW, 0 without a power value or a limit
OverW(effPower, limitW) ==
    IF IsNumber(effPower) /\ limitW > 0 THEN FracMinus(effPower, limitW) ELSE Frac(0, 1)

considerPhase(phaseMode) == phaseMode \in {"info", "enforce"}
canActivateFromPhaseOnly(phaseMode) == phaseMode = "enforce"

violationNow(limitW, powerViolation, phaseViolation, phaseMode) ==
    \/ limitW > 0 /\ powerViolation
    \/ /\ considerPhase(phaseMode)
       /\ phaseViolation
       /\ (limitW > 0 \/ canActivateFromPhaseOnly(phaseMode))

underPowerRelease(effPower, limitW, hysteresisW) ==
    IF ~(limitW > 0) THEN TRUE
    ELSE IF IsNumber(effPower) THEN FracAtMost(effPower, limitW - hysteresisW)
    ELSE TRUE

underPhaseReleaseAlways(phaseMode, phaseViolation) == TRUE

underPhaseRelease(phaseMode, phaseViolation) ==
    IF ~considerPhase(phaseMode) THEN TRUE ELSE ~phaseViolation

\* the engine: s = [status, pendingSince, activeSince]
FromInactive(s, t, violation, activateDelayS) ==
    IF ~violation THEN s
    ELSE IF activateDelayS > 0
    THEN [s EXCEPT !.status = "pending_on", !.pendingSince = t]
    ELSE [s EXCEPT !.status = "active", !.pendingSince = t, !.activeSince = t]

FromPendingOnAtOnce(s, t, violation, activateDelayS) ==
    IF ~violation THEN [s EXCEPT !.status = "inactive", !.pendingSince = 0]
    ELSE [s EXCEPT !.status = "active", !.activeSince = t]

FromPendingOn(s, t, violation, activateDelayS) ==
    IF ~violation THEN [s EXCEPT !.status = "inactive", !.pendingSince = 0]
    ELSE IF t - s.pendingSince >= activateDelayS
    THEN [s EXCEPT !.status = "active", !.activeSince = t]
    ELSE s

FromActiveAtOnce(s, t, release, releaseDelayS) ==
    IF ~release THEN s ELSE [s EXCEPT !.status = "inactive", !.pendingSince = 0]

FromActive(s, t, release, releaseDelayS) ==
    IF ~release THEN s
    ELSE IF releaseDelayS > 0
    THEN [s EXCEPT !.status = "pending_off", !.pendingSince = t]
    ELSE [s EXCEPT !.status = "inactive", !.pendingSince = 0]

FromPendingOffAtOnce(s, t, release, releaseDelayS) ==
    IF ~release THEN [s EXCEPT !.status = "active", !.pendingSince = 0]
    ELSE [s EXCEPT !.status = "inactive", !.pendingSince = 0]

FromPendingOff(s, t, release, releaseDelayS) ==
    IF ~release THEN [s EXCEPT !.status = "active", !.pendingSince = 0]
    ELSE IF t - s.pendingSince >= releaseDelayS
    THEN [s EXCEPT !.status = "inactive", !.pendingSince = 0]
    ELSE s

\* "State machine with delays/hysteresis"
StateMachine(s, t, violation, release, activateDelayS, releaseDelayS) ==
    CASE s.status = "inactive" -> FromInactive(s, t, violation, activateDelayS)
      [] s.status = "pending_on" -> FromPendingOn(s, t, violation, activateDelayS)
      [] s.status = "active" -> FromActive(s, t, release, releaseDelayS)
      [] s.status = "pending_off" -> FromPendingOff(s, t, release, releaseDelayS)

\* "Reason"
Reason(status, powerViolation, phaseViolation, phaseMode) ==
    IF status \in {"active", "pending_on", "pending_off"}
    THEN IF powerViolation /\ phaseViolation /\ considerPhase(phaseMode)
         THEN "power_and_phase"
         ELSE IF powerViolation THEN "power"
         ELSE IF phaseViolation /\ considerPhase(phaseMode) THEN "phase"
         ELSE "unknown"
    ELSE "ok"

\* phaseMode: String(cfg.phaseMode || (maxPhaseA > 0 ? 'enforce' : 'off'))
PhaseMode(cfg) ==
    IF cfg.phaseMode # "" THEN cfg.phaseMode
    ELSE IF num(cfg.maxPhaseA, 0) > 0 THEN "enforce" ELSE "off"

\* ------------------------------------------------------------------------
\* State
\* ------------------------------------------------------------------------

VARIABLES
    now,                   \* Date.now(), in seconds
    cmCfg,                 \* adapter.config.chargingManagement (+ datapoint mappings)
    chargingSinceMs,       \* _chargingSinceMs:      key -> time or Null (no entry)
    chargingLastActiveMs,  \* _chargingLastActiveMs: key -> time or Null
    chargingLastSeenMs,    \* _chargingLastSeenMs:   key -> time or Null
    lastCmdTargetW,        \* _lastCmdTargetW:       key -> W or Null
    lastCmdTargetA,        \* _lastCmdTargetA:       key -> 0.1 A or Null
    cmIn,                  \* the datapoint cache as the last charging-management tick read it
    cmOut,                 \* what the last charging-management tick published and wrote
    psCfg,                 \* adapter.config.peakShaving (+ enablePeakShaving, mappings)
    psStatus,              \* _status
    psPendingSince,        \* _pendingSince (0: none)
    psActiveSince,         \* _activeSince (0: none)
    psWasActive,           \* _wasActive
    psWinPower,            \* _winPower.samples
    psWinPhase,            \* <<_winL1.samples, _winL2.samples, _winL3.samples>>
    psWinMax,              \* maxSeconds of the four windows
    psIn,                  \* what the last peak-shaving tick read
    psOut,                 \* what the last peak-shaving tick computed and published
    psBaselines,           \* _baselines: actuator -> baseline or NoBaseline
    actState,              \* the foreign states of the actuators: setpoint and enable
    actEpisode,            \* history: the actuators before the shaving episode began
    enabledModules,        \* the modules whose enabledFn() is true
    phase,                 \* onReady: "new", "init" (waiting for init), "started"
    unloaded,              \* onUnload has run
    timer,                 \* _timer: "none", "armed" or "cleared"
    rounds,                \* the calls of ModuleManager.tick() in progress
    finished,              \* the last call of ModuleManager.tick() that ended
    muCfg,                 \* adapter.config.multiUse (+ enableMultiUse, mappings)
    muConsumers,           \* MultiUseModule._consumers
    muDev,                 \* the datapoints of the consumers: last write, foreign state
    muIn,                  \* what the last multi-use tick read
    muOut                  \* what the last multi-use tick published

cmVars == <<cmCfg, chargingSinceMs, chargingLastActiveMs, chargingLastSeenMs,
            lastCmdTargetW, lastCmdTargetA, cmIn, cmOut>>

psVars == <<psCfg, psStatus, psPendingSince, psActiveSince, psWasActive,
            psWinPower, psWinPhase, psWinMax, psIn, psOut, psBaselines, actState,
            actEpisode>>

schedVars == <<enabledModules, phase, unloaded, timer, rounds, finished>>

muVars == <<muCfg, muConsumers, muDev, muIn, muOut>>

vars == <<now, cmVars, psVars, schedVars, muVars>>

\* the clock stops at MaxNow
MaxNow == 3

\* ------------------------------------------------------------------------
\* Charging management: configurations and inputs of the model
\* ------------------------------------------------------------------------

\* ramp and step settings: [maxDeltaWPerTick, maxDeltaAPerTick, stepW, stepA]
RampSettings ==
    { [maxDeltaWPerTick |-> 0, maxDeltaAPerTick |-> 0, stepW |-> 0, stepA |-> 1],
      [maxDeltaWPerTick |-> 2000, maxDeltaAPerTick |-> 20, stepW |-> 1000, stepA |-> 10] }

CmConfig(mode, pauseBehavior, ramp, wallboxes) ==
    [mode |-> mode, totalBudgetMode |-> "fromDatapoint",
     staticMaxChargingPowerW |-> 0, hasBudgetPowerId |-> TRUE,
     pauseWhenPeakShavingActive |-> TRUE, pauseBehavior |-> pauseBehavior,
     staleTimeoutSec |-> 15,
     maxDeltaWPerTick |-> ramp.maxDeltaWPerTick, maxDeltaAPerTick |-> ramp.maxDeltaAPerTick,
     stepW |-> ramp.stepW, stepA |-> ramp.stepA,
     voltageV |-> 230, minCurrentA |-> 60, maxCurrentA |-> 160, acMinPower3pW |-> 4200,
     activityThresholdW |-> 200, stopGraceSec |-> 1, sessionKeepSec |-> 2,
     pvSurplusOnly |-> FALSE,
     entries |-> {"ps.gridPowerW", "cm.budgetPowerW"},
     list |-> <<1, 2>>,
     wallboxes |-> wallboxes]

\* the fleets of the model: wallbox 1, wallbox 2
Fleets ==
    { <<WbAc3pCurrent, WbAc1pPower>>, <<WbDcPower, WbDcCurrent>>,
      <<WbAc1pPower, WbDcPower>>, <<WbDcCurrent, WbDisabled>>,
      <<WbNoSetpoint, WbAc3pCurrent>> }

CmConfigs ==
    { CmConfig("mixed", "followPeakBudget", r, [k \in WbKeys |-> fl[k]]) :
        r \in RampSettings, fl \in Fleets }
    \cup { CmConfig("mixed", "rampDownToZero", r, [k \in WbKeys |-> WbAc1pPower]) :
             r \in {CHOOSE x \in RampSettings : x.stepW > 0} }
    \cup { CmConfig("mixed", "rampDownToZero", r,
                     [k \in WbKeys |-> <<WbNoSetpoint, WbAc1pPower>>[k]]) :
             r \in {CHOOSE x \in RampSettings : x.stepW = 0} }
    \cup { CmConfig("off", "rampDownToZero", r, [k \in WbKeys |-> WbAc1pPower]) :
             r \in {CHOOSE x \in RampSettings : x.stepW = 0} }

\* what a tick finds in the datapoint cache and the state store:
\*   gridAge    age (s) of the grid-power datapoint (timeout 15 s: 15 is fresh)
\*   ext        value of the external budget datapoint cm.budgetPowerW (W)
\*   peakActive peakShaving.control.active
\*   peakBudget peakShaving.dynamic.availableForControlledW (W)
\*   tariff     value of cm.tariffBudgetW (W)
\*   pv         value of cm.pvSurplusW (W)
\*   allowed    value of cm.gridChargeAllowed (0: false, 1: true)
\* Null: no value cached.
NoInput ==
    [gridAge |-> 15, ext |-> Null, peakActive |-> FALSE, peakBudget |-> Null,
     tariff |-> Null, pv |-> Null, allowed |-> Null]

\* Inputs that the path taken does not use are held at one value.
CmInputs ==
    { [NoInput EXCEPT !.gridAge = 16],
      NoInput,
      [NoInput EXCEPT !.ext = 4100],
      [NoInput EXCEPT !.ext = 15000],
      [NoInput EXCEPT !.peakActive = TRUE],
      [NoInput EXCEPT !.peakActive = TRUE, !.peakBudget = 3000] }

\* measured wallbox power (W)
ActualPowers == {0, 3000}

\* the datapoint cache and the state store a tick finds, from the input
\* record in, the online flags on and the measured powers pw
CmEnv(in, on, pw) ==
    [val |-> [k \in DpKeys |->
                CASE k = "cm.budgetPowerW" -> in.ext
                  [] k = "cm.tariffBudgetW" -> in.tariff
                  [] k = "cm.pvSurplusW" -> in.pv
                  [] k = "cm.gridChargeAllowed" -> in.allowed
                  [] OTHER -> Null],
     age |-> [k \in DpKeys |-> IF k \in {"ps.gridPowerW", "cm.gridPowerW"}
                                 THEN in.gridAge ELSE 0],
     peakActive |-> in.peakActive, peakBudget |-> in.peakBudget, peakBudgetAge |-> 0,
     online |-> on, pW |-> pw, in |-> in]

\* what one tick can read when the inputs are drawn from the set inputs
CmEnvsOf(cfg, inputs) ==
    { CmEnv(in, on, pw) :
        in \in inputs,
        on \in { f \in [WbKeys -> BOOLEAN] :
                   \A k \in WbKeys : ~cfg.wallboxes[k].hasStatus => f[k] },
        pw \in { f \in [WbKeys -> ActualPowers \cup {Null}] :
                   \A k \in WbKeys : (f[k] = Null) <=> ~cfg.wallboxes[k].hasActualPower } }

\* what one tick reads
CmEnvs(cfg) == CmEnvsOf(cfg, CmInputs)

\* configurations that exercise the budget resolver: every cap datapoint is
\* mapped, no ramp, one power-controlled AC and one power-controlled DC charger
BudgetConfig(budgetMode, staticW, pause) ==
    [CmConfig("mixed", "followPeakBudget", CHOOSE x \in RampSettings : x.stepW = 0,
              [k \in WbKeys |-> <<WbAc1pPower, WbDcPower>>[k]])
       EXCEPT !.totalBudgetMode = budgetMode,
              !.staticMaxChargingPowerW = staticW,
              !.pauseWhenPeakShavingActive = pause,
              !.entries = {"ps.gridPowerW", "cm.budgetPowerW", "cm.tariffBudgetW",
                           "cm.pvSurplusW", "cm.gridChargeAllowed"}]

BudgetConfigs ==
    { BudgetConfig("engine", 0, TRUE), BudgetConfig("engine", 9000, TRUE),
      BudgetConfig("engine", 0, FALSE), BudgetConfig("fromDatapoint", 0, TRUE),
      BudgetConfig("fromPeakShaving", 0, FALSE), BudgetConfig("static", 9000, TRUE) }

\* the cap values a tick of these configurations can read
BudgetInputs ==
    { NoInput,
      [NoInput EXCEPT !.ext = 0],
      [NoInput EXCEPT !.ext = 8000],
      [NoInput EXCEPT !.peakBudget = 0],
      [NoInput EXCEPT !.peakBudget = 6000],
      [NoInput EXCEPT !.peakActive = TRUE, !.peakBudget = 0],
      [NoInput EXCEPT !.peakActive = TRUE, !.peakBudget = 6000],
      [NoInput EXCEPT !.tariff = 0],
      [NoInput EXCEPT !.tariff = 7000],
      [NoInput EXCEPT !.ext = 0, !.tariff = 7000],
      [NoInput EXCEPT !.ext = 8000, !.tariff = 7000, !.peakBudget = 6000],
      [NoInput EXCEPT !.ext = 8000, !.tariff = 7000, !.peakActive = TRUE,
                      !.peakBudget = 6000],
      [NoInput EXCEPT !.allowed = 1, !.pv = 2000],
      [NoInput EXCEPT !.allowed = 0, !.pv = 2000],
      [NoInput EXCEPT !.allowed = 0],
      [NoInput EXCEPT !.allowed = 0, !.pv = 2000, !.ext = 8000],
      [NoInput EXCEPT !.allowed = 0, !.pv = 2000, !.peakActive = TRUE,
                      !.peakBudget = 6000] }

\* ------------------------------------------------------------------------
\* Charging management: tick
\* ------------------------------------------------------------------------

\* the map f over the keys 1..n, as the sequence of its values
RECURSIVE AsSeq(_, _)
AsSeq(f, n) == IF n = 0 THEN << >> ELSE Append(AsSeq(f, n - 1), f[n])

\* a map over the wallbox keys, entry by entry
WbMap(f) == AsSeq(f, Cardinality(WbKeys))

\* applyEvcsSetpoint with basis w.controlBasis: the setpoint datapoint it
\* hands to dp.writeNumber ("": it returns before any write)
SetpointKey(w) ==
    IF w.controlBasis = "none" THEN ""
    ELSE IF ~w.hasSetA /\ ~w.hasSetW THEN ""
    ELSE IF w.controlBasis = "currentA" THEN (IF w.hasSetA THEN "setA" ELSE "setW")
    ELSE (IF w.hasSetW THEN "setW" ELSE "setA")

\* the per-wallbox outcome of a path that sets every target to 0 (stale
\* failsafe, pause with ramp-down).  apply: applySetpoint was called;
\* write: it handed the setpoint to dp.writeNumber
ZeroOut(w, reason) ==
    [enabled |-> w.enabled, online |-> w.online, cmdW |-> 0, cmdA |-> 0,
     reason |-> IF w.enabled /\ w.online THEN reason
                ELSE availabilityReason(w.enabled, w.online),
     apply |-> w.enabled /\ w.online,
     write |-> w.enabled /\ w.online /\ SetpointKey(w) # "",
     rawTargetW |-> Null, stepTarget |-> Null, prevCmd |-> Null]

\* position of key k in the sequence order (0: absent)
IndexOf(order, k) ==
    IF \E i \in 1..Len(order) : order[i] = k
    THEN CHOOSE i \in 1..Len(order) : order[i] = k ELSE 0

\* the per-wallbox outcome of the allocation loop (a: the consumer's
\* allocation) and of the loop over the disabled/offline wallboxes after it
AllocOut(w, processed, a) ==
    IF ~processed
    THEN [enabled |-> w.enabled, online |-> w.online, cmdW |-> 0, cmdA |-> 0,
          reason |-> availabilityReason(w.enabled, w.online),
          apply |-> FALSE, write |-> FALSE,
          rawTargetW |-> Null, stepTarget |-> Null, prevCmd |-> Null]
    ELSE [enabled |-> w.enabled, online |-> w.online,
          cmdW |-> a.cmdW, cmdA |-> a.cmdA, reason |-> a.reason,
          apply |-> TRUE, write |-> SetpointKey(w) # "",
          rawTargetW |-> a.rawTargetW, stepTarget |-> a.stepTarget,
          prevCmd |-> a.prevCmd]

\* the stale-meter failsafe: every target 0, command memory untouched
StaleResult(wbs, lastW, lastA) ==
    [out |-> [path |-> "stale", budgetW |-> 0, order |-> << >>,
              wb |-> WbMap([k \in WbKeys |-> ZeroOut(wbs[k], "STALE_METER")])],
     lastW |-> lastW, lastA |-> lastA, cleanupCmd |-> TRUE]

\* mode 'off': nothing is published or written per wallbox
OffResult(budgetW, lastW, lastA, out) ==
    [out |-> [path |-> "off", budgetW |-> budgetW, order |-> << >>,
              wb |-> WbMap([k \in WbKeys |->
                              [out.wb[k] EXCEPT !.apply = FALSE, !.write = FALSE,
                                                !.rawTargetW = Null,
                                                !.stepTarget = Null, !.prevCmd = Null]])],
     lastW |-> lastW, lastA |-> lastA, cleanupCmd |-> TRUE]

\* paused by peak shaving, ramp down to zero: command memory untouched and
\* not cleaned up
PausedResult(wbs, lastW, lastA) ==
    [out |-> [path |-> "paused", budgetW |-> 0, order |-> << >>,
              wb |-> WbMap([k \in WbKeys |-> ZeroOut(wbs[k], "PAUSED_BY_PEAK_SHAVING")])],
     lastW |-> lastW, lastA |-> lastA, cleanupCmd |-> FALSE]

\* the allocation loop done: alloc[i] is the allocation of consumer order[i];
\* the command memory takes the commands
AllocatedResult(path, budgetW, wbs, order, alloc, lastW, lastA) ==
    [out |-> [path |-> path, budgetW |-> budgetW, order |-> order,
              wb |-> WbMap([k \in WbKeys |->
                              AllocOut(wbs[k], IndexOf(order, k) > 0,
                                       alloc[IndexOf(order, k)])])],
     lastW |-> WbMap([k \in WbKeys |-> IF IndexOf(order, k) > 0
                                         THEN alloc[IndexOf(order, k)].cmdW ELSE lastW[k]]),
     lastA |-> WbMap([k \in WbKeys |-> IF IndexOf(order, k) > 0
                                         THEN alloc[IndexOf(order, k)].cmdA ELSE lastA[k]]),
     cleanupCmd |-> TRUE]

AllocResult(cfg, path, budgetW, wbs, order, lastW, lastA) ==
    AllocatedResult(path, budgetW, wbs, order,
                    Allocate(cfg, wbs, order, budgetW, lastW, lastA), lastW, lastA)

\* the branch of tick() after the wallbox loop
PathResult(cfg, path, budgetW, wbs, lastW, lastA, out) ==
    CASE path = "stale" -> StaleResult(wbs, lastW, lastA)
      [] path = "off" -> OffResult(budgetW, lastW, lastA, out)
      [] path = "paused" -> PausedResult(wbs, lastW, lastA)
      [] OTHER -> AllocResult(cfg, path, budgetW, wbs, SortedOrder(wbs, cfg.list), lastW, lastA)

\* "Cleanup session tracking for removed wallboxes": map with the entries of
\* the keys not seen for sessionCleanupStaleMs deleted
Cleanup(cfg, map, seen, t) ==
    AsSeq([k \in DOMAIN map |->
             IF ~IsFinite(seen[k]) THEN map[k]
             ELSE IF seen[k] = 0 \/ (t - seen[k]) > SessionCleanupStale(cfg) THEN Null
             ELSE map[k]], Len(map))

\* the maps at the end of tick(): r is the result of the branch taken, seen
\* the _chargingLastSeenMs written by the wallbox loop
TickEnd(cfg, t, wbs, seen, r) ==
    [out    |-> r.out,
     since  |-> Cleanup(cfg, WbMap([k \in WbKeys |-> wbs[k].since]), seen, t),
     active |-> Cleanup(cfg, WbMap([k \in WbKeys |-> wbs[k].active]), seen, t),
     seen   |-> Cleanup(cfg, seen, seen, t),
     lastW  |-> IF r.cleanupCmd THEN Cleanup(cfg, r.lastW, seen, t) ELSE r.lastW,
     lastA  |-> IF r.cleanupCmd THEN Cleanup(cfg, r.lastA, seen, t) ELSE r.lastA]

TickPath(cfg, env, t, wbs, path, lastW, lastA, out) ==
    TickEnd(cfg, t, wbs, WbMap([k \in WbKeys |-> t]),
            PathResult(cfg, path, PathBudgetW(cfg, env, path), wbs, lastW, lastA, out))

\* one tick at time t on the module's maps: what it publishes and writes
\* (out) and the new maps
CmTickResult(cfg, env, t, sinceMap, activeMap, lastW, lastA, out) ==
    TickPath(cfg, env, t,
             WbMap([k \in WbKeys |-> WbEntry(cfg, env, k, t, sinceMap, activeMap)]),
             CmPath(cfg, env), lastW, lastA, out)

\* the key k is one of the rows of cfg.wallboxes
Listed(cfg, k) == IndexOf(cfg.list, k) > 0

\* the wallbox loop runs over the rows of cfg.wallboxes only: a key without
\* a row keeps its entries of _chargingSinceMs / _chargingLastActiveMs
ListedEntries(cfg, env, t, sinceMap, activeMap) ==
    WbMap([k \in WbKeys |->
             IF Listed(cfg, k) THEN WbEntry(cfg, env, k, t, sinceMap, activeMap)
             ELSE [WbEntry(cfg, env, k, t, sinceMap, activeMap)
                     EXCEPT !.since = sinceMap[k], !.active = activeMap[k]]])

\* _chargingLastSeenMs after the wallbox loop
ListedSeen(cfg, t, seenMap) ==
    WbMap([k \in WbKeys |-> IF Listed(cfg, k) THEN t ELSE seenMap[k]])

\* nothing is published for a key without a row
ListedOut(cfg, r, out) ==
    [r EXCEPT !.out.wb = WbMap([k \in WbKeys |->
                                  IF Listed(cfg, k) THEN r.out.wb[k] ELSE out.wb[k]])]

ListedPath(cfg, env, t, wbs, seen, path, lastW, lastA, out) ==
    ListedOut(cfg, TickEnd(cfg, t, wbs, seen,
                           PathResult(cfg, path, PathBudgetW(cfg, env, path), wbs,
                                      lastW, lastA, out)), out)

\* one tick at time t where cfg.wallboxes need not hold every key the maps
\* know
ListedTickResult(cfg, env, t, sinceMap, activeMap, seenMap, lastW, lastA, out) ==
    ListedPath(cfg, env, t, ListedEntries(cfg, env, t, sinceMap, activeMap),
               ListedSeen(cfg, t, seenMap), CmPath(cfg, env), lastW, lastA, out)

\* the maps of the module take the result r of a tick
CmStore(r) ==
    /\ cmOut' = r.out
    /\ chargingSinceMs' = r.since
    /\ chargingLastActiveMs' = r.active
    /\ chargingLastSeenMs' = r.seen
    /\ lastCmdTargetW' = r.lastW
    /\ lastCmdTargetA' = r.lastA

\* the age of the oldest configured grid-power datapoint
GridAge(cfg, env) ==
    Max(IF getEntry(cfg, "cm.gridPowerW") THEN getAgeMs(cfg, env, "cm.gridPowerW") ELSE 0,
        IF getEntry(cfg, "ps.gridPowerW") THEN getAgeMs(cfg, env, "ps.gridPowerW") ELSE 0)

\* ChargingManagementModule.tick() reading one of envs
CmTickOn(envs) ==
    /\ \E env \in envs :
          /\ CmStore(CmTickResult(cmCfg, env, now, chargingSinceMs, chargingLastActiveMs,
                                  lastCmdTargetW, lastCmdTargetA, cmOut))
          /\ cmIn' = [env.in EXCEPT !.gridAge = GridAge(cmCfg, env)]
    /\ UNCHANGED <<now, cmCfg, psVars, schedVars, muVars>>

\* ChargingManagementModule.tick()
CmTick == CmTickOn(CmEnvs(cmCfg))

\* time passes between two ticks
ClockAdvance ==
    /\ now < MaxNow
    /\ now' = now + 1
    /\ UNCHANGED <<cmVars, psVars, schedVars, muVars>>

NoEntries == WbMap([k \in WbKeys |-> Null])

\* the module after construction and init(): empty maps, nothing published
CmConstructed ==
    /\ chargingSinceMs = NoEntries
    /\ chargingLastActiveMs = NoEntries
    /\ chargingLastSeenMs = NoEntries
    /\ lastCmdTargetW = NoEntries
    /\ lastCmdTargetA = NoEntries
    /\ cmOut = [path |-> "none", budgetW |-> Null, order |-> << >>,
                wb |-> WbMap([k \in WbKeys |->
                          [enabled |-> cmCfg.wallboxes[k].enabled, online |-> FALSE,
                           cmdW |-> Null, cmdA |-> Null, reason |-> "",
                           apply |-> FALSE, write |-> FALSE, rawTargetW |-> Null,
                           stepTarget |-> Null, prevCmd |-> Null]])]
    /\ cmIn = [NoInput EXCEPT !.gridAge = 0]

CmInit ==
    /\ cmCfg \in CmConfigs
    /\ CmConstructed

\* charging management left out: one configuration, the module as constructed
CmIdle ==
    /\ cmCfg = CmConfig("off", "rampDownToZero",
                        CHOOSE x \in RampSettings : x.stepW = 0,
                        [k \in WbKeys |-> WbAc1pPower])
    /\ CmConstructed

\* ------------------------------------------------------------------------
\* Peak shaving: configurations and inputs of the model
\* ------------------------------------------------------------------------

\* adapter.config.peakShaving, without actuators.  hasPhaseIds:
\* l1CurrentId..l3CurrentId are mapped; staleTimeoutSec: the admin setting
\* "Meter stale timeout (s)"
PsConfig(enabled, mode, useAverage, phaseMode, maxPhaseA, activateDelayS, releaseDelayS) ==
    [enabled |-> enabled, mode |-> mode,
     smoothingSeconds |-> 1, useAverage |-> useAverage,
     maxPowerW |-> IF mode = "dynamic" THEN 0 ELSE 5000, reserveW |-> 500,
     hysteresisW |-> 500,
     activateDelaySeconds |-> activateDelayS, releaseDelaySeconds |-> releaseDelayS,
     maxPhaseA |-> maxPhaseA, phaseMode |-> phaseMode,
     hasPhaseIds |-> maxPhaseA > 0, staleTimeoutSec |-> 15,
     voltageV |-> 230, actuationEnabled |-> FALSE, actuators |-> << >>]

PsDisabled == PsConfig(FALSE, "static", TRUE, "", 0, 2, 5)

PsConfigs ==
    { PsConfig(TRUE, "static", FALSE, "", 160, 2, 1),
      PsConfig(TRUE, "static", TRUE, "off", 0, 1, 2),
      PsConfig(TRUE, "dynamic", FALSE, "info", 160, 0, 0),
      PsConfig(TRUE, "static", TRUE, "enforce", 160, 2, 1),
      PsDisabled }

\* the grid-power reading of a tick: cached value (W) and its age (s)
GridReadings ==
    { [grid |-> Null, gridAge |-> Infinity],
      [grid |-> 4000, gridAge |-> 0], [grid |-> 4800, gridAge |-> 0],
      [grid |-> 6000, gridAge |-> 0], [grid |-> 4000, gridAge |-> 16] }

\* the phase currents a tick reads (0.1 A)
PhaseReadings(cfg) ==
    IF ~cfg.hasPhaseIds THEN { <<Null, Null, Null>> }
    ELSE IF cfg.mode = "dynamic" THEN { <<100, 100, 100>>, <<200, 100, 210>> }
    ELSE IF cfg.useAverage
    THEN { <<Null, Null, Null>>, <<100, 100, 100>>, <<200, 100, 210>> }
    ELSE { <<Null, Null, Null>>, <<100, 100, 100>>, <<100, 200, 100>>, <<200, 100, 210>> }

\* what one tick reads
PsEnvs(cfg) ==
    { [grid |-> g.grid, gridAge |-> g.gridAge, l |-> l, allowed |-> a, meas |-> << >>] :
        g \in GridReadings, l \in PhaseReadings(cfg),
        a \in IF cfg.mode = "dynamic" THEN {Null, 5000} ELSE {Null} }

\* actuators (cfg.actuators) of the modes limitW and onOff; the flags tell
\* which of measurePowerId, setpointId, enableId are set
ActLimitW ==
    [enabled |-> TRUE, mode |-> "limitW", phases |-> 3, priority |-> 1,
     hasMeasure |-> FALSE, hasSetpoint |-> TRUE, hasEnable |-> TRUE,
     min |-> 1000, max |-> 11000]

ActLimitWMeasured == [ActLimitW EXCEPT !.hasMeasure = TRUE]

ActOnOff ==
    [enabled |-> TRUE, mode |-> "onOff", phases |-> 3, priority |-> 2,
     hasMeasure |-> FALSE, hasSetpoint |-> FALSE, hasEnable |-> TRUE,
     min |-> Null, max |-> 2000]

\* peak shaving with actuation: static limit 5000 W on the raw grid power
ActConfig(activateDelayS, releaseDelayS, actuators) ==
    [PsConfig(TRUE, "static", FALSE, "off", 0, activateDelayS, releaseDelayS)
       EXCEPT !.actuationEnabled = TRUE, !.actuators = actuators]

\* a limitW actuator with a small range, and one without max and min
ActLimitSmall == [ActLimitW EXCEPT !.max = 2000, !.hasEnable = FALSE]

ActLimitNoMax == [ActLimitW EXCEPT !.max = Null, !.min = Null, !.hasEnable = FALSE]

ActConfigs ==
    { ActConfig(d[1], d[2], acts) :
        d \in { <<0, 0>>, <<1, 1>> },
        acts \in { <<ActLimitW, ActOnOff>>, <<ActLimitWMeasured, ActOnOff>> } }
    \cup { ActConfig(0, 0, acts) :
             acts \in { <<[ActLimitW EXCEPT !.priority = 2], ActLimitSmall>>,
                        <<[ActLimitW EXCEPT !.priority = 2], ActLimitNoMax>> } }

\* the foreign states of the actuators when the adapter starts: setpoint (W)
\* and enable (1: true, 0: false), Null: the state has no value
InitialDevices(cfg) ==
    IF cfg.actuators = << >> THEN { << >> }
    ELSE { <<[setpoint |-> sp, enabled |-> 1], [setpoint |-> Null, enabled |-> 1]>> :
             sp \in {8000, 11000} }

\* what one tick of the configurations with actuators reads: grid power and
\* the measured power of the actuators that have a measurePowerId
ActEnvs(cfg) ==
    { [grid |-> g, gridAge |-> 0, l |-> <<Null, Null, Null>>, allowed |-> Null,
       meas |-> <<m, Null>>] :
        g \in {4000, 4800, 6000, 7500, 9000},
        m \in IF cfg.actuators[1].hasMeasure THEN {3000, 7000} ELSE {Null} }

\* the clock of the peak-shaving specification stops at PsMaxNow
PsMaxNow == 5

\* ------------------------------------------------------------------------
\* Peak shaving: tick
\* ------------------------------------------------------------------------

\* the start of the current unbroken run of ticks with violationNow (Null:
\* the last tick had none); a history of the ticks, read by no tick
ViolationSince(out, t, violation) ==
    IF ~violation THEN Null
    ELSE IF out.violationSince = Null THEN t ELSE out.violationSince

\* the start of the current unbroken run of ticks with releaseConditionNow
\* (Null: the last tick had none); a history of the ticks, read by no tick
ReleaseSince(out, t, release) ==
    IF ~release THEN Null
    ELSE IF out.releaseSince = Null THEN t ELSE out.releaseSince

MaxFrac(x, y) == IF FracGreater(y, x) THEN y ELSE x

\* requiredReductionW: the excess over the power limit or, where phases are
\* considered, the excess of the worst phase (0.1 A) as three-phase power
RequiredReductionW(cfg, powerViolation, effPower, limitW, worst) ==
    MaxFrac(MaxFrac(Frac(0, 1),
                    IF powerViolation THEN OverW(effPower, limitW) ELSE Frac(0, 1)),
            IF considerPhase(PhaseMode(cfg)) /\ FracGreater(worst.over, Frac(0, 1))
            THEN Frac(worst.over.num * clamp(num(cfg.voltageV, 230), 50, 400) * 3,
                      worst.over.den * AScale)
            ELSE Frac(0, 1))

\* the end of tick(): engine state s stored, states published
PsPublish(cfg, t, prev, s, winPower, winPhase, limitW, effPower, powerViolation, worst, violation, release, out) ==
    [status |-> s.status, pendingSince |-> s.pendingSince, activeSince |-> s.activeSince,
     wasActive |-> s.status = "active",
     winPower |-> winPower, winPhase |-> winPhase,
     requiredReductionW |-> RequiredReductionW(cfg, powerViolation, effPower, limitW, worst),
     out |-> [prevStatus |-> prev,
              active |-> s.status = "active",
              status |-> s.status,
              reason |-> Reason(s.status, powerViolation, FracGreater(worst.over, Frac(0, 1)),
                                PhaseMode(cfg)),
              limitW |-> limitW,
              effectivePower |-> effPower,
              powerViolation |-> powerViolation,
              phaseViolation |-> FracGreater(worst.over, Frac(0, 1)),
              worstPhase |-> worst.k,
              violationNow |-> violation,
              underPowerRelease |-> underPowerRelease(effPower, limitW,
                                       clamp(num(cfg.hysteresisW, 500), 0, 1000000000)),
              releaseConditionNow |-> release,
              violationSince |-> ViolationSince(out, t, violation),
              releaseSince |-> ReleaseSince(out, t, release),
              samples |-> Len(winPower),
              lastUpdate |-> t]]

\* the state machine on the conditions of this tick
PsEngine(cfg, t, s, winPower, winPhase, limitW, effPower, powerViolation, worst, violation, release, out) ==
    PsPublish(cfg, t, s.status,
              StateMachine(s, t, violation, release,
                           clamp(num(cfg.activateDelaySeconds, 2), 0, 3600),
                           clamp(num(cfg.releaseDelaySeconds, 5), 0, 3600)),
              winPower, winPhase, limitW, effPower, powerViolation, worst,
              violation, release, out)

\* violationNow and releaseConditionNow
PsConditions(cfg, t, s, winPower, winPhase, limitW, effPower, powerViolation, worst, out) ==
    PsEngine(cfg, t, s, winPower, winPhase, limitW, effPower, powerViolation, worst,
             violationNow(limitW, powerViolation, FracGreater(worst.over, Frac(0, 1)),
                          PhaseMode(cfg)),
             /\ underPowerRelease(effPower, limitW,
                                  clamp(num(cfg.hysteresisW, 500), 0, 1000000000))
             /\ underPhaseRelease(PhaseMode(cfg), FracGreater(worst.over, Frac(0, 1))),
             out)

\* limit, effective power, power violation and phase analysis on the windows
\* as pushed
PsAnalysis(cfg, t, s, winPower, winPhase, limitW, effPower, raw, out) ==
    PsConditions(cfg, t, s, winPower, winPhase, limitW, effPower,
                 FracGreater(OverW(effPower, limitW), Frac(0, 1)),
                 WorstPhase(PhaseValues(cfg.useAverage, winPhase, raw),
                            num(cfg.maxPhaseA, 0)),
                 out)

PsMeasured(cfg, env, t, s, winPower, winPhase, out) ==
    PsAnalysis(cfg, t, s, winPower, winPhase, LimitW(cfg, env.allowed),
               EffPower(cfg.useAverage, mean(winPower), env.grid), env.l, out)

\* PeakShavingModule.tick() at time t with the readings env
PsTickResult(cfg, env, t, s, winPower, winPhase, out) ==
    PsMeasured(cfg, env, t, s,
               push(winPower, SmoothingSeconds(cfg), env.grid, t),
               <<push(winPhase[1], SmoothingSeconds(cfg), env.l[1], t),
                 push(winPhase[2], SmoothingSeconds(cfg), env.l[2], t),
                 push(winPhase[3], SmoothingSeconds(cfg), env.l[3], t)>>,
               out)

PsStore(r) ==
    /\ psStatus' = r.status
    /\ psPendingSince' = r.pendingSince
    /\ psActiveSince' = r.activeSince
    /\ psWasActive' = r.wasActive
    /\ psWinPower' = r.winPower
    /\ psWinPhase' = r.winPhase
    /\ psOut' = r.out

\* ------------------------------------------------------------------------
\* Peak shaving: actuation
\* ------------------------------------------------------------------------

\* no entry of _baselines; at: the time of the capture, read by no tick
NoBaseline == [set |-> FALSE, baseline |-> Null, baselineEnabled |-> Null, at |-> 0]

\* _baselines.clear()
NoBaselines(acts) == AsSeq([i \in 1..Len(acts) |-> NoBaseline], Len(acts))

\* the actuators _applyActuators and _restoreActuators keep
ActUsable(acts) == { i \in 1..Len(acts) : acts[i].enabled /\ (acts[i].hasSetpoint \/ acts[i].hasEnable) }

\* "stable ordering: enabled, then priority ascending", then by id
\* the usable actuators in the order of the configured list
RECURSIVE ActListOrder(_, _)
ActListOrder(acts, S) ==
    IF S = {} THEN << >>
    ELSE <<CHOOSE i \in S : \A j \in S : i <= j>>
         \o ActListOrder(acts, S \ {CHOOSE i \in S : \A j \in S : i <= j})

RECURSIVE ActSorted(_, _)
ActSorted(acts, S) ==
    IF S = {} THEN << >>
    ELSE <<CHOOSE i \in S : \A j \in S :
              \/ acts[i].priority < acts[j].priority
              \/ acts[i].priority = acts[j].priority /\ i <= j>>
         \o ActSorted(acts, S \ {CHOOSE i \in S : \A j \in S :
                                   \/ acts[i].priority < acts[j].priority
                                   \/ acts[i].priority = acts[j].priority /\ i <= j})

\* "baseline from measured power, else from current setpoint, else from
\* configured max"
BaselineValue(a, dev, meas) ==
    IF a.mode = "limitW"
    THEN IF a.hasMeasure /\ IsFinite(meas) THEN meas
         ELSE IF a.hasSetpoint /\ IsFinite(dev.setpoint) THEN dev.setpoint
         ELSE IF IsFinite(a.max) THEN a.max ELSE Null
    ELSE IF a.mode = "limitA"
    THEN IF a.hasSetpoint /\ IsFinite(dev.setpoint) THEN dev.setpoint
         ELSE IF IsFinite(a.max) THEN a.max ELSE Null
    ELSE Null

\* a mutant of Capture that captures at every tick
Recapture(mem, a, dev, meas, t) ==
    [set |-> TRUE, baseline |-> BaselineValue(a, dev, meas),
     baselineEnabled |-> IF a.hasEnable THEN dev.enabled ELSE Null, at |-> t]

\* "Baseline capture (once per activation)": the entry of _baselines after it
Capture(mem, a, dev, meas, t) ==
    IF mem.set THEN mem
    ELSE [set |-> TRUE, baseline |-> BaselineValue(a, dev, meas),
          baselineEnabled |-> IF a.hasEnable THEN dev.enabled ELSE Null, at |-> t]

\* onOff: the power the load is assumed to draw
AssumedW(a, meas) ==
    IF a.hasMeasure /\ IsFinite(meas) /\ meas > 0 THEN meas
    ELSE IF IsFinite(a.max) THEN a.max ELSE 0

\* limitW: the target from the clamped baseline baseW
LimitTo(a, dev, baseW, minW, remainingW) ==
    [dev |-> [setpoint |-> IF a.hasSetpoint
                             THEN baseW - Min(remainingW, Max(0, baseW - minW))
                             ELSE dev.setpoint,
              enabled |-> IF a.hasEnable
                            THEN (IF baseW - Min(remainingW, Max(0, baseW - minW)) > 0
                                  THEN 1 ELSE 0)
                            ELSE dev.enabled],
     usedW |-> Min(remainingW, Max(0, baseW - minW)), written |-> TRUE]

\* one iteration of the loop of _applyActuators on actuator a with the
\* baseline mem: the foreign states after it, the reduction it takes and
\* whether it wrote (actuators of the modes limitW and onOff)
ApplyOne(a, mem, dev, meas, remainingW) ==
    IF a.mode = "onOff"
    THEN IF AssumedW(a, meas) > 0 /\ 2 * remainingW >= AssumedW(a, meas)
         THEN [dev |-> [dev EXCEPT !.enabled = IF a.hasEnable THEN 0 ELSE @],
               usedW |-> AssumedW(a, meas), written |-> a.hasEnable]
         ELSE [dev |-> dev, usedW |-> 0, written |-> FALSE]
    ELSE IF ~IsFinite(mem.baseline) \/ a.mode # "limitW"
    THEN [dev |-> dev, usedW |-> 0, written |-> FALSE]
    ELSE LimitTo(a, dev,
                 clamp(mem.baseline, IF IsFinite(a.min) THEN a.min ELSE 0,
                       IF IsFinite(a.max) THEN a.max ELSE mem.baseline),
                 IF IsFinite(a.min) THEN a.min ELSE 0, remainingW)

\* st after actuator i: baseline mem kept, outcome o of the iteration
ApplyStore(st, i, mem, o) ==
    [base |-> [st.base EXCEPT ![i] = mem],
     dev |-> [st.dev EXCEPT ![i] = o.dev],
     written |-> IF o.written THEN st.written \cup {i} ELSE st.written,
     remainingW |-> st.remainingW - o.usedW]

ApplyCaptured(acts, meas, st, i, mem) ==
    ApplyStore(st, i, mem, ApplyOne(acts[i], mem, st.dev[i], meas[i], st.remainingW))

\* the loop of _applyActuators over order; st: _baselines, the foreign
\* states, the actuators written and the reduction still to find
RECURSIVE ApplyActuators(_, _, _, _, _)
ApplyActuators(acts, meas, t, order, st) ==
    IF order = << >> \/ st.remainingW <= 0 THEN st
    ELSE ApplyActuators(acts, meas, t, Tail(order),
             ApplyCaptured(acts, meas, st, Head(order),
                 Capture(st.base[Head(order)], acts[Head(order)],
                         st.dev[Head(order)], meas[Head(order)], t)))

\* _restoreActuators: the foreign state of actuator a with the baseline mem
RestoreOne(a, mem, dev) ==
    IF ~mem.set THEN dev
    ELSE [setpoint |-> IF IsFinite(mem.baseline) /\ a.hasSetpoint
                         THEN mem.baseline ELSE dev.setpoint,
          enabled |-> IF a.hasEnable /\ mem.baselineEnabled \in {0, 1}
                        THEN mem.baselineEnabled ELSE dev.enabled]

RestoreActuators(acts, st) ==
    [base |-> NoBaselines(acts),
     dev |-> AsSeq([i \in 1..Len(acts) |->
                      IF i \in ActUsable(acts) THEN RestoreOne(acts[i], st.base[i], st.dev[i])
                      ELSE st.dev[i]], Len(acts)),
     written |-> st.written, remainingW |-> 0]

\* requiredReductionW as handed to _applyActuators: whole watts when the
\* effective power is the raw reading
WholeW(x) == x.num \div x.den

\* "Actuation (Step 1.5)" with _baselines cleared or kept as base
Actuation(cfg, env, t, wasActive, r, base, dev) ==
    IF cfg.actuationEnabled /\ r.status = "active" /\ FracGreater(r.requiredReductionW, Frac(0, 1))
    THEN ApplyActuators(cfg.actuators, env.meas, t,
                        ActSorted(cfg.actuators, ActUsable(cfg.actuators)),
                        [base |-> base, dev |-> dev, written |-> {},
                         remainingW |-> WholeW(r.requiredReductionW)])
    ELSE IF wasActive /\ r.status # "active"
    THEN RestoreActuators(cfg.actuators, [base |-> base, dev |-> dev, written |-> {}])
    ELSE [base |-> base, dev |-> dev, written |-> {}, remainingW |-> 0]

\* "detect transitions to store/restore baselines", then the actuation
Actuate(cfg, env, t, wasActive, r, base, dev) ==
    Actuation(cfg, env, t, wasActive, r,
              IF r.status = "active" /\ ~wasActive THEN NoBaselines(cfg.actuators) ELSE base,
              dev)

\* the history of the shaving episodes of a configuration with actuators:
\* an episode begins when the engine becomes active and was not waiting for
\* the release; before: the foreign states then, written: the actuators
\* written since, count: the episodes begun
EpisodeAfter(prevStatus, wasActive, r, dev, ep, a) ==
    IF dev = << >> THEN ep
    ELSE IF r.status = "active" /\ ~wasActive /\ prevStatus # "pending_off"
    THEN [before |-> dev, written |-> a.written, count |-> ep.count + 1]
    ELSE IF r.status = "active" THEN [ep EXCEPT !.written = @ \cup a.written]
    ELSE ep

ActStore(a, ep) ==
    /\ psBaselines' = a.base
    /\ actState' = a.dev
    /\ actEpisode' = ep

PsTickWith(env, r) ==
    /\ PsStore(r)
    /\ ActStore(Actuate(psCfg, env, now, psWasActive, r, psBaselines, actState),
                EpisodeAfter(psStatus, psWasActive, r, actState, actEpisode,
                             Actuate(psCfg, env, now, psWasActive, r, psBaselines, actState)))
    /\ psIn' = [gridAge |-> env.gridAge]
    /\ psWinMax' = SmoothingSeconds(psCfg)

\* PeakShavingModule.tick() reading one of envs; the scheduler leaves at
\* least a second between two ticks
PsTickOn(envs) ==
    /\ psCfg.enabled
    /\ psOut.lastUpdate < now
    /\ \E env \in envs :
          PsTickWith(env, PsTickResult(psCfg, env, now,
                                       [status |-> psStatus, pendingSince |-> psPendingSince,
                                        activeSince |-> psActiveSince],
                                       setMaxSeconds(psWinPower, psWinMax, SmoothingSeconds(psCfg), now),
                                       <<setMaxSeconds(psWinPhase[1], psWinMax, SmoothingSeconds(psCfg), now),
                                         setMaxSeconds(psWinPhase[2], psWinMax, SmoothingSeconds(psCfg), now),
                                         setMaxSeconds(psWinPhase[3], psWinMax, SmoothingSeconds(psCfg), now)>>,
                                       psOut))
    /\ UNCHANGED <<now, psCfg>>

PsTick == PsTickOn(PsEnvs(psCfg))

\* the tick of a configuration with actuators
ActTick == PsTickOn(ActEnvs(psCfg))

\* the module after its constructor: empty windows, engine inactive
PsConstructed ==
    /\ psStatus = "inactive"
    /\ psPendingSince = 0
    /\ psActiveSince = 0
    /\ psWasActive = FALSE
    /\ psWinPower = << >>
    /\ psWinPhase = << << >>, << >>, << >> >>
    /\ psWinMax = 10
    /\ psIn = [gridAge |-> 0]
    /\ psOut = [prevStatus |-> "inactive", active |-> FALSE, status |-> "inactive",
                reason |-> "", limitW |-> 0, effectivePower |-> NoNumber,
                powerViolation |-> FALSE, phaseViolation |-> FALSE, worstPhase |-> "",
                violationNow |-> FALSE, underPowerRelease |-> TRUE,
                releaseConditionNow |-> TRUE, violationSince |-> Null,
                releaseSince |-> Null,
                samples |-> 0, lastUpdate |-> 0]
    /\ psBaselines = NoBaselines(psCfg.actuators)
    /\ actState \in InitialDevices(psCfg)
    /\ actEpisode = [before |-> << >>, written |-> {}, count |-> 0]

\* peak shaving switched off
PsIdle ==
    /\ psCfg = PsDisabled
    /\ PsConstructed

\* ------------------------------------------------------------------------
\* Scheduler: onReady, the interval timer, ModuleManager.tick
\* ------------------------------------------------------------------------

\* ModuleManager.modules, in the order init() pushes them
Modules == <<"peakShaving", "chargingManagement", "multiUse">>

\* the adapter configurations of the model: the modules switched on
EnabledSets ==
    { {"peakShaving", "chargingManagement", "multiUse"},
      {"peakShaving", "chargingManagement"},
      {"chargingManagement"} }

\* at most MaxRounds calls of ModuleManager.tick() are in progress
MaxRounds == 2

\* the loop over the modules from position i on: the first module that is
\* switched on (Len(Modules) + 1: none is left)
RECURSIVE NextEnabled(_, _)
NextEnabled(i, enabled) ==
    IF i > Len(Modules) THEN i
    ELSE IF Modules[i] \in enabled THEN i
    ELSE NextEnabled(i + 1, enabled)

\* a call of ModuleManager.tick() that has come to position i of the loop:
\* it calls the tick of module i and waits for it ("module"), or it is past
\* the loop, has returned, and the caller waits for the write of
\* info.lastTick ("lastTick")
AtModule(r, i) ==
    IF i > Len(Modules)
    THEN [r EXCEPT !.idx = i, !.pc = "lastTick"]
    ELSE [r EXCEPT !.idx = i, !.pc = "module",
                   !.invoked = r.invoked \cup {Modules[i]}]

\* modules.tick() called by src ("immediate": onReady, "timer": the
\* interval callback), run up to its first wait
NewRound(src, enabled) ==
    AtModule([src |-> src, idx |-> 0, pc |-> "", invoked |-> {}, threw |-> {}],
             NextEnabled(1, enabled))

\* the tick of module r.idx has returned: on to the next module
AfterReturn(r, enabled) == AtModule(r, NextEnabled(r.idx + 1, enabled))

\* no try/catch around the module's tick: the exception leaves
\* ModuleManager.tick()
AfterThrowUncaught(r, enabled) ==
    [r EXCEPT !.pc = "failed", !.threw = r.threw \cup {Modules[r.idx]}]

\* the tick of module r.idx has thrown: the catch block records the error,
\* and the loop goes on to the next module
AfterThrow(r, enabled) ==
    AtModule([r EXCEPT !.threw = r.threw \cup {Modules[r.idx]}],
             NextEnabled(r.idx + 1, enabled))

\* the sequence s without its element i
Without(s, i) == SubSeq(s, 1, i - 1) \o SubSeq(s, i + 1, Len(s))

\* the round r has ended: failed says that an exception ended it (caught by
\* the try/catch of its caller)
Ended(r, failed) ==
    [src |-> r.src, invoked |-> r.invoked, threw |-> r.threw, failed |-> failed]

\* onReady up to its first wait (setObjectNotExistsAsync, dp.init, modules.init)
OnReadyBegin ==
    /\ phase = "new"
    /\ phase' = "init"
    /\ UNCHANGED <<enabledModules, timer, rounds, finished, unloaded>>

\* onReady after modules.init(): setInterval, then the immediate tick
OnReadyStart ==
    /\ phase = "init"
    /\ phase' = "started"
    /\ timer' = "armed"
    /\ rounds' = Append(rounds, NewRound("immediate", enabledModules))
    /\ UNCHANGED <<enabledModules, finished, unloaded>>

\* the interval callback
TimerFire ==
    /\ timer = "armed"
    /\ Len(rounds) < MaxRounds
    /\ rounds' = Append(rounds, NewRound("timer", enabledModules))
    /\ UNCHANGED <<enabledModules, timer, finished, phase, unloaded>>

\* the round i goes on after the step that took it to r
Continue(i, r) ==
    IF r.pc = "failed"
    THEN /\ rounds' = Without(rounds, i)
         /\ finished' = Ended(r, TRUE)
    ELSE /\ rounds' = [rounds EXCEPT ![i] = r]
         /\ UNCHANGED finished

\* the tick of a module, awaited by round i, returns
ModuleTickReturns ==
    /\ \E i \in 1..Len(rounds) :
          /\ rounds[i].pc = "module"
          /\ Continue(i, AfterReturn(rounds[i], enabledModules))
    /\ UNCHANGED <<enabledModules, timer, phase, unloaded>>

\* the tick of a module, awaited by round i, throws
ModuleTickThrows ==
    /\ \E i \in 1..Len(rounds) :
          /\ rounds[i].pc = "module"
          /\ Continue(i, AfterThrow(rounds[i], enabledModules))
    /\ UNCHANGED <<enabledModules, timer, phase, unloaded>>

\* the write of info.lastTick after modules.tick() succeeds or fails; the
\* round is over
LastTickWritten ==
    /\ \E i \in 1..Len(rounds), failed \in BOOLEAN :
          /\ rounds[i].pc = "lastTick"
          /\ rounds' = Without(rounds, i)
          /\ finished' = Ended(rounds[i], failed)
    /\ UNCHANGED <<enabledModules, timer, phase, unloaded>>

\* onUnload: clearInterval when a timer is set
OnUnload ==
    /\ ~unloaded
    /\ unloaded' = TRUE
    /\ timer' = IF timer = "armed" THEN "cleared" ELSE timer
    /\ UNCHANGED <<enabledModules, rounds, finished, phase>>

\* the adapter after its constructor
AdapterConstructed ==
    /\ phase = "new"
    /\ unloaded = FALSE
    /\ timer = "none"
    /\ rounds = << >>
    /\ finished = [src |-> "none", invoked |-> {}, threw |-> {}, failed |-> FALSE]

\* the scheduler left out: the adapter as constructed
SchedIdle ==
    /\ enabledModules = {"chargingManagement"}
    /\ AdapterConstructed

\* ------------------------------------------------------------------------
\* Multi-use: consumers
\* ------------------------------------------------------------------------

MuKeys == {1, 2}

MuMap(f) == AsSeq(f, Cardinality(MuKeys))

\* rows of cfg.consumers. key: the consumer key; priority: Null when not a
\* number; hasSetA/hasSetW/hasEnable: the key names a registry entry
MuLoad(key, priority) ==
    [key |-> key, type |-> "load", priority |-> priority, controlBasis |-> "auto",
     hasSetA |-> FALSE, hasSetW |-> TRUE, hasEnable |-> FALSE]

\* a load with an enable datapoint
MuLoadSwitched(key, priority) == [MuLoad(key, priority) EXCEPT !.hasEnable = TRUE]

MuEvcsCurrent(key, priority) ==
    [key |-> key, type |-> "evcs", priority |-> priority, controlBasis |-> "auto",
     hasSetA |-> TRUE, hasSetW |-> FALSE, hasEnable |-> TRUE]

\* a charger with a power setpoint only
MuEvcsPower(key, priority) ==
    [key |-> key, type |-> "evcs", priority |-> priority, controlBasis |-> "auto",
     hasSetA |-> FALSE, hasSetW |-> TRUE, hasEnable |-> FALSE]

MuEvcsNoSetpoint(key, priority) ==
    [key |-> key, type |-> "evcs", priority |-> priority, controlBasis |-> "auto",
     hasSetA |-> FALSE, hasSetW |-> FALSE, hasEnable |-> FALSE]

\* the consumer object built from row r (the keys of the model are distinct
\* and safe, so id = key)
MuConsumer(r) ==
    [id |-> r.key, key |-> r.key, type |-> r.type, priority |-> num(r.priority, 100),
     controlBasis |-> r.controlBasis,
     hasSetA |-> r.hasSetA, hasSetW |-> r.hasSetW, hasEnable |-> r.hasEnable]

\* a comparator that ends at the priority
MuSortsByPriority(a, b) == a.priority < b.priority

\* "Deterministic order: priority asc, then key asc": a strictly before b
MuSortsBefore(a, b) ==
    IF a.priority # b.priority THEN a.priority < b.priority ELSE a.key < b.key

RECURSIVE MuInsertSorted(_, _)
MuInsertSorted(sorted, c) ==
    IF sorted = << >> THEN <<c>>
    ELSE IF MuSortsBefore(c, Head(sorted)) THEN <<c>> \o sorted
    ELSE <<Head(sorted)>> \o MuInsertSorted(Tail(sorted), c)

\* consumers.sort(...) over the rows in the order of the configuration
RECURSIVE MuSortRows(_)
MuSortRows(rows) ==
    IF rows = << >> THEN << >>
    ELSE MuInsertSorted(MuSortRows(SubSeq(rows, 1, Len(rows) - 1)), MuConsumer(rows[Len(rows)]))

\* _loadConsumersFromConfig: the value it gives this._consumers
LoadConsumersFromConfig(cfg) == MuSortRows(cfg.consumers)

\* "Determine consumer basis (auto resolves to available setpoint dp)"
MuBasis(c) ==
    IF c.controlBasis # "auto" THEN c.controlBasis
    ELSE IF c.type = "load" THEN "powerW"
    ELSE IF c.hasSetW THEN "powerW"
    ELSE IF c.hasSetA THEN "currentA"
    ELSE "none"

\* ------------------------------------------------------------------------
\* Datapoint writes and applySetpoint
\* ------------------------------------------------------------------------

\* the datapoints of one consumer: last* is lastWriteByObjectId of the
\* setpoint (W), setpoint (A) and enable datapoints, val* the foreign state.
\* Null / NoNumber: nothing written yet.
NoWrites ==
    [lastW |-> Null, lastA |-> NoNumber, lastEn |-> Null,
     valW |-> Null, valA |-> NoNumber, valEn |-> Null]

\* |x - y| < d for fractions x, y and a deadband d in tenths
FracWithin(x, y, d) == Abs(x.num * y.den - y.num * x.den) * AScale < d * x.den * y.den

\* a write that is never held back by the deadband
WriteNumberAlways(has, deadband, d, v, ok) ==
    IF ~has THEN [ret |-> 0, d |-> d]
    ELSE IF ok THEN [ret |-> 1, d |-> [d EXCEPT !.lastW = v, !.valW = v]]
    ELSE [ret |-> 0, d |-> d]

\* DatapointRegistry.writeNumber on the power setpoint: ret 1 (true) or
\* 0 (false); ok: setForeignStateAsync does not throw
WriteNumberW(has, deadband, d, v, ok) ==
    IF ~has THEN [ret |-> 0, d |-> d]
    ELSE IF d.lastW # Null /\ deadband > 0 /\ Abs(v - d.lastW) < deadband
    THEN [ret |-> 0, d |-> d]
    ELSE IF ok THEN [ret |-> 1, d |-> [d EXCEPT !.lastW = v, !.valW = v]]
    ELSE [ret |-> 0, d |-> d]

\* DatapointRegistry.writeNumber on the current setpoint
WriteNumberA(has, deadband, d, v, ok) ==
    IF ~has THEN [ret |-> 0, d |-> d]
    ELSE IF IsNumber(d.lastA) /\ deadband > 0 /\ FracWithin(v, d.lastA, deadband)
    THEN [ret |-> 0, d |-> d]
    ELSE IF ok THEN [ret |-> 1, d |-> [d EXCEPT !.lastA = v, !.valA = v]]
    ELSE [ret |-> 0, d |-> d]

\* DatapointRegistry.writeBoolean on the enable datapoint (b: 1 or 0)
WriteBoolean(has, d, b, ok) ==
    IF ~has THEN [ret |-> 0, d |-> d]
    ELSE IF ok THEN [ret |-> 1, d |-> [d EXCEPT !.lastEn = b, !.valEn = b]]
    ELSE [ret |-> 0, d |-> d]

FracPositive(x) == x.num > 0 /\ x.den > 0

\* the setpoint write of applyEvcsSetpoint: wroteA / wroteW (Null: no call)
EvcsWroteA(c, cfg, d, targetA, ok) ==
    [ret |-> WriteNumberA(c.hasSetA, cfg.deadbandA, d,
                          IF FracPositive(targetA) THEN targetA ELSE Frac(0, 1), ok.set),
     a |-> TRUE]

EvcsWroteW(c, cfg, d, targetW, ok) ==
    [ret |-> WriteNumberW(c.hasSetW, cfg.deadbandW, d, IF targetW > 0 THEN targetW ELSE 0,
                          ok.set),
     a |-> FALSE]

EvcsSetpointWrite(c, cfg, d, basis, targetW, targetA, ok) ==
    IF basis = "currentA"
    THEN (IF c.hasSetA THEN EvcsWroteA(c, cfg, d, targetA, ok)
          ELSE EvcsWroteW(c, cfg, d, targetW, ok))
    ELSE (IF c.hasSetW THEN EvcsWroteW(c, cfg, d, targetW, ok)
          ELSE EvcsWroteA(c, cfg, d, targetA, ok))

\* applied and status from the results of the writes made
EvcsResult(wroteA, wroteW, wroteEnable, d) ==
    [applied |-> ~(0 \in {wroteA, wroteW, wroteEnable}),
     status |-> IF 0 \in {wroteA, wroteW, wroteEnable} /\ 1 \in {wroteA, wroteW, wroteEnable}
                  THEN "applied_partial"
                ELSE IF 0 \in {wroteA, wroteW, wroteEnable} THEN "write_failed"
                ELSE IF 1 \in {wroteA, wroteW, wroteEnable} THEN "applied"
                ELSE "unchanged",
     writes |-> [setA |-> wroteA, setW |-> wroteW, enable |-> wroteEnable],
     d |-> d]

EvcsEnabled(sw, en) ==
    EvcsResult(IF sw.a THEN sw.ret.ret ELSE Null, IF sw.a THEN Null ELSE sw.ret.ret,
               en.ret, en.d)

\* the enable write of applyEvcsSetpoint, after the setpoint write sw
EvcsEnableWrite(c, sw, targetW, targetA, ok) ==
    IF ~c.hasEnable
    THEN EvcsResult(IF sw.a THEN sw.ret.ret ELSE Null, IF sw.a THEN Null ELSE sw.ret.ret,
                    Null, sw.ret.d)
    ELSE EvcsEnabled(sw, WriteBoolean(TRUE, sw.ret.d,
                                      IF targetW > 0 \/ FracPositive(targetA) THEN 1 ELSE 0,
                                      ok.enable))

NotWritten(status, d) ==
    [applied |-> FALSE, status |-> status,
     writes |-> [setA |-> Null, setW |-> Null, enable |-> Null], d |-> d]

\* applyEvcsSetpoint(ctx, consumer, {targetW, targetA, basis})
applyEvcsSetpoint(c, cfg, d, basis, targetW, targetA, ok) ==
    IF (IF basis = "auto"
        THEN (IF c.hasSetW THEN "powerW" ELSE IF c.hasSetA THEN "currentA" ELSE "none")
        ELSE basis) = "none"
    THEN NotWritten("control_disabled", d)
    ELSE IF ~c.hasSetA /\ ~c.hasSetW THEN NotWritten("no_setpoint_dp", d)
    ELSE EvcsEnableWrite(c, EvcsSetpointWrite(c, cfg, d, basis, targetW, targetA, ok),
                         targetW, targetA, ok)

LoadResult(wroteW, wroteEnable, d) ==
    [applied |-> wroteW = 1 \/ wroteEnable = 1,
     status |-> IF wroteW = 1 \/ wroteEnable = 1 THEN "applied" ELSE "write_failed",
     writes |-> [setA |-> Null, setW |-> wroteW, enable |-> wroteEnable], d |-> d]

LoadEnabled(wroteW, en) == LoadResult(wroteW, en.ret, en.d)

LoadEnableWrite(c, sw, targetW, ok) ==
    IF ~c.hasEnable THEN LoadResult(sw.ret, 0, sw.d)
    ELSE LoadEnabled(sw.ret, WriteBoolean(TRUE, sw.d, IF targetW > 0 THEN 1 ELSE 0, ok.enable))

\* applyLoadSetpoint(ctx, consumer, {targetW})
applyLoadSetpoint(c, cfg, d, targetW, ok) ==
    IF ~c.hasSetW
    THEN [applied |-> FALSE, status |-> "no_setpoint_dp",
          writes |-> [setA |-> Null, setW |-> 0, enable |-> 0], d |-> d]
    ELSE LoadEnableWrite(c, WriteNumberW(TRUE, cfg.deadbandW, d,
                                         IF targetW > 0 THEN targetW ELSE 0, ok.set),
                         targetW, ok)

\* applySetpoint(ctx, consumer, target)
applySetpoint(c, cfg, d, basis, targetW, targetA, ok) ==
    IF c.type = "evcs" THEN applyEvcsSetpoint(c, cfg, d, basis, targetW, targetA, ok)
    ELSE IF c.type = "load" THEN applyLoadSetpoint(c, cfg, d, targetW, ok)
    ELSE [applied |-> FALSE, status |-> "unsupported_type",
          writes |-> [setA |-> Null, setW |-> Null, enable |-> Null], d |-> d]

\* ------------------------------------------------------------------------
\* Multi-use: the tick
\* ------------------------------------------------------------------------

\* dp.getNumberFresh(key, staleTimeoutMs, null) of a mapped datapoint whose
\* cached value is val and whose age is age (s)
MuNumberFresh(cfg, val, age) ==
    getNumberFresh([entries |-> {"mu"}],
                   [val |-> [k \in {"mu"} |-> val], age |-> [k \in {"mu"} |-> age]],
                   "mu", clamp(num(cfg.staleTimeoutSec, 15), 1, 3600))

\* "Determine requested budget (lower precedence sources)"
MuRequest(cfg, env) ==
    IF cfg.hasTariffKey /\ IsFinite(MuNumberFresh(cfg, env.tariff, env.tariffAge))
    THEN [requestW |-> Max(0, MuNumberFresh(cfg, env.tariff, env.tariffAge)),
          budgetSource |-> "TARIFF"]
    ELSE IF cfg.hasPvKey /\ IsFinite(MuNumberFresh(cfg, env.pv, env.pvAge))
    THEN [requestW |-> Max(0, MuNumberFresh(cfg, env.pv, env.pvAge)), budgetSource |-> "PV"]
    ELSE [requestW |-> Max(0, num(cfg.comfortBudgetW, 0)), budgetSource |-> "COMFORT"]

MuReserveW(cfg) == IF cfg.reserveEnabled THEN clamp(num(cfg.reserveMinW, 0), 0, 100000) ELSE 0

\* "Netzschutz": the cap and the control reason after the peak-shaving reason
MuNetCap(env) ==
    IF env.psReason = "STALE_METER"
    THEN [capW |-> 0, controlReason |-> "STALE_METER"]
    ELSE [capW |-> Infinity, controlReason |-> "OK"]

\* "External limit cap (strict: if configured but stale/invalid => failsafe)"
MuExternalCap(cfg, env, cap) ==
    IF ~cfg.hasExternalKey THEN cap
    ELSE IF ~IsFinite(MuNumberFresh(cfg, env.ext, env.extAge))
    THEN [capW |-> 0, controlReason |-> "STALE_METER"]
    ELSE [capW |-> Min(cap.capW, Max(0, env.ext)), controlReason |-> cap.controlReason]

\* "PeakShaving cap (only when PS is active ...)"
MuPeakCap(cfg, env, cap) ==
    IF ~env.psActive THEN cap
    ELSE IF ~IsFinite(env.avail) \/ env.availAge > clamp(num(cfg.staleTimeoutSec, 15), 1, 3600)
    THEN [capW |-> Min(cap.capW, 0), controlReason |-> cap.controlReason]
    ELSE [capW |-> Min(cap.capW, Max(0, env.avail)), controlReason |-> cap.controlReason]

MuCaps(cfg, env) == MuPeakCap(cfg, env, MuExternalCap(cfg, env, MuNetCap(env)))

\* "Final effective budget" and the control reason
MuBudgetOf(rq, requestAfterReserveW, cap) ==
    [requestW |-> requestAfterReserveW, budgetSource |-> rq.budgetSource,
     capW |-> cap.capW,
     budgetW |-> Max(0, Min(requestAfterReserveW, cap.capW)),
     controlReason |->
        IF cap.controlReason # "OK" THEN cap.controlReason
        ELSE IF requestAfterReserveW <= 0 THEN "NO_BUDGET"
        ELSE IF Max(0, Min(requestAfterReserveW, cap.capW)) < requestAfterReserveW
          THEN "LIMITED_BY_BUDGET"
        ELSE "OK"]

MuBudgetFrom(cfg, env, rq) ==
    MuBudgetOf(rq, Max(0, rq.requestW - MuReserveW(cfg)), MuCaps(cfg, env))

MuBudget(cfg, env) == MuBudgetFrom(cfg, env, MuRequest(cfg, env))

\* V * phases of the conversions
MuVFactor(cfg) == clamp(num(cfg.voltageV, 230), 100, 260) * clamp(num(cfg.defaultPhases, 3), 1, 3)

\* no result published for a consumer
NoMuResult ==
    [processed |-> FALSE, reqTargetW |-> 0, reqTargetA |-> 0, requestedW |-> 0,
     allocatedW |-> 0, allocatedA |-> Frac(0, 1), basis |-> "", applied |-> FALSE,
     status |-> "", reason |-> "", called |-> FALSE,
     writes |-> [setA |-> Null, setW |-> Null, enable |-> Null]]

\* "Map low-level actuator status to canonical reasons"
MuReasonOf(status, reason) ==
    IF status = "no_setpoint_dp" THEN "NO_SETPOINT"
    ELSE IF status = "control_disabled" THEN "SKIPPED"
    ELSE IF status \in {"write_failed", "applied_partial"} THEN "UNKNOWN"
    ELSE IF status = "unsupported_type" THEN "SKIPPED"
    ELSE reason

\* the loop body after applySetpoint returned res
MuApplied(basis, rq, requestedW, allocatedW, allocatedA, reason, remainingW, res) ==
    [next |-> [processed |-> TRUE, reqTargetW |-> rq.w, reqTargetA |-> rq.a,
               requestedW |-> requestedW, allocatedW |-> allocatedW,
               allocatedA |-> allocatedA, basis |-> basis, applied |-> res.applied,
               status |-> res.status, reason |-> MuReasonOf(res.status, reason),
               called |-> TRUE, writes |-> res.writes],
     remainingW |-> remainingW, d |-> res.d]

\* the loop body where applySetpoint is not called
MuNotApplied(basis, rq, requestedW, reason, status, remainingW, d) ==
    [next |-> [processed |-> TRUE, reqTargetW |-> rq.w, reqTargetA |-> rq.a,
               requestedW |-> requestedW, allocatedW |-> 0, allocatedA |-> Frac(0, 1),
               basis |-> basis, applied |-> FALSE, status |-> status, reason |-> reason,
               called |-> FALSE,
               writes |-> [setA |-> Null, setW |-> Null, enable |-> Null]],
     remainingW |-> remainingW, d |-> d]

\* the reason of an allocation of allocatedW out of wantW
MuAllocReason(allocatedW, wantW) ==
    IF allocatedW <= 0 THEN "NO_BUDGET"
    ELSE IF allocatedW < wantW THEN "LIMITED_BY_BUDGET"
    ELSE "ALLOCATED"

\* allocatedA = floorToStep(ampsFromW(takeW), stepA) (stepA in tenths of A)
MuAllocatedA(cfg, takeW) ==
    IF takeW <= 0 THEN Frac(0, 1)
    ELSE IF clamp(num(cfg.stepA, 0), 0, 100 * AScale) <= 0 THEN Frac(takeW, MuVFactor(cfg))
    ELSE Frac(FloorDiv(takeW * AScale, MuVFactor(cfg) * cfg.stepA) * cfg.stepA, AScale)

\* wattsFromA (exact for the currents of the model)
MuWattsFromA(cfg, a) ==
    IF ~FracPositive(a) THEN 0 ELSE (a.num * MuVFactor(cfg)) \div a.den

\* an allocation that takes the whole request, whatever remains
MuTakeAll(wantW, remainingW) == wantW

\* takeW = min(wantW, max(0, remainingW))
MuTakeW(wantW, remainingW) == Min(wantW, Max(0, remainingW))

MuAllocPower(cfg, c, d, ok, rq, requestedW, allocatedW, remainingW) ==
    MuApplied("powerW", rq, requestedW, allocatedW, Frac(0, 1),
              MuAllocReason(allocatedW, Max(0, requestedW)),
              Max(0, remainingW - allocatedW),
              applySetpoint(c, cfg, d, "powerW", allocatedW, Frac(0, 1), ok))

MuAllocCurrentW(cfg, c, d, ok, rq, requestedW, allocatedA, allocatedW, remainingW) ==
    MuApplied("currentA", rq, requestedW, allocatedW, allocatedA,
              MuAllocReason(allocatedW, Max(0, requestedW)),
              Max(0, remainingW - allocatedW),
              applySetpoint(c, cfg, d, "currentA", allocatedW, allocatedA, ok))

MuAllocCurrent(cfg, c, d, ok, rq, requestedW, allocatedA, remainingW) ==
    MuAllocCurrentW(cfg, c, d, ok, rq, requestedW, allocatedA,
                    MuWattsFromA(cfg, allocatedA), remainingW)

\* "Budget allocation in W first"
MuAlloc(cfg, c, d, ok, basis, rq, requestedW, takeW, remainingW) ==
    IF basis = "powerW"
    THEN MuAllocPower(cfg, c, d, ok, rq, requestedW,
                      floorToStep(takeW, clamp(num(cfg.stepW, 0), 0, 5000)), remainingW)
    ELSE MuAllocCurrent(cfg, c, d, ok, rq, requestedW, MuAllocatedA(cfg, takeW), remainingW)

\* one iteration of the consumer loop
MuBranch(cfg, c, d, ok, basis, rq, requestedW, controlReason, remainingW) ==
    IF ~(rq.w > 0 \/ rq.a > 0)
    THEN (IF basis # "none"
          THEN MuApplied(basis, rq, requestedW, 0, Frac(0, 1), "SKIPPED", remainingW,
                         applySetpoint(c, cfg, d, basis, 0, Frac(0, 1), ok))
          ELSE MuNotApplied(basis, rq, requestedW, "SKIPPED", "target_zero", remainingW, d))
    ELSE IF controlReason = "STALE_METER"
    THEN MuApplied(basis, rq, requestedW, 0, Frac(0, 1), "STALE_METER", remainingW,
                   applySetpoint(c, cfg, d, basis, 0, Frac(0, 1), ok))
    ELSE IF basis = "none"
    THEN MuNotApplied(basis, rq, requestedW, "SKIPPED", "control_disabled", remainingW, d)
    ELSE MuAlloc(cfg, c, d, ok, basis, rq, requestedW,
                 MuTakeW(Max(0, requestedW), remainingW), remainingW)

\* requestedW = reqTargetW > 0 ? reqTargetW : wattsFromA(reqTargetA)
MuRequestedW(cfg, rq) ==
    IF rq.w > 0 THEN rq.w ELSE IF rq.a > 0 THEN rq.a * MuVFactor(cfg) ELSE 0

MuConsumerTick(cfg, env, c, st) ==
    MuBranch(cfg, c, st.dev[c.id], env.ok[c.id], MuBasis(c), env.req[c.id],
             MuRequestedW(cfg, env.req[c.id]), st.controlReason, st.remainingW)

MuStored(c, st, r) ==
    [st EXCEPT !.remainingW = r.remainingW, !.res[c.id] = r.next, !.dev[c.id] = r.d,
               !.order = Append(@, c.id)]

\* "Allocate budget to consumers deterministically"
RECURSIVE MuAllocate(_, _, _, _)
MuAllocate(cfg, env, list, st) ==
    IF list = << >> THEN st
    ELSE MuAllocate(cfg, env, Tail(list),
                    MuStored(Head(list), st, MuConsumerTick(cfg, env, Head(list), st)))

MuLoop(cfg, env, consumers, dev, b) ==
    [b |-> b,
     st |-> MuAllocate(cfg, env, consumers,
                       [remainingW |-> b.budgetW, controlReason |-> b.controlReason,
                        res |-> MuMap([k \in MuKeys |-> NoMuResult]), dev |-> dev,
                        order |-> << >>])]

\* MultiUseModule.tick(): what it publishes (out) and the datapoints after it
MuTickResult(cfg, env, consumers, dev) == MuLoop(cfg, env, consumers, dev, MuBudget(cfg, env))

\* ------------------------------------------------------------------------
\* Multi-use: configurations, inputs and actions of the model
\* ------------------------------------------------------------------------

\* adapter.config.multiUse with the consumer rows; deadbandW / deadbandA: the
\* deadband of the registry entries of the setpoints (W, tenths of A)
MuConfig(stepW, stepA, deadbandW, consumers) ==
    [hasTariffKey |-> TRUE, hasPvKey |-> TRUE, hasExternalKey |-> TRUE,
     comfortBudgetW |-> 1000, reserveEnabled |-> FALSE, reserveMinW |-> 0,
     staleTimeoutSec |-> 15, voltageV |-> 230, defaultPhases |-> 3,
     stepW |-> stepW, stepA |-> stepA, deadbandW |-> deadbandW, deadbandA |-> 0,
     consumers |-> consumers]

\* the consumer lists of the model
MuFleets ==
    { <<MuLoad(1, 2), MuLoadSwitched(2, 1)>>,
      <<MuEvcsCurrent(1, Null), MuLoad(2, Null)>>,
      <<MuEvcsNoSetpoint(1, Null), MuLoad(2, Null)>>,
      <<MuLoad(1, Null)>> }

MuConfigs ==
    { MuConfig(s[1], s[2], s[3], fl) :
        s \in { <<0, 0, 50>>, <<500, 10, 0>> }, fl \in MuFleets }

\* what a tick finds: the budget datapoints with their ages (s), the
\* peak-shaving states, the requests (states targetW, targetA in A) and
\* whether setForeignStateAsync succeeds on a consumer's datapoints
MuFresh ==
    [tariff |-> 3000, tariffAge |-> 0, pv |-> 2040, pvAge |-> 0, ext |-> 5000, extAge |-> 0,
     psReason |-> "", psActive |-> FALSE, avail |-> Null, availAge |-> 0]

MuBudgetInputs ==
    { MuFresh,
      [MuFresh EXCEPT !.tariffAge = 16],
      [MuFresh EXCEPT !.tariffAge = 16, !.pvAge = 16],
      [MuFresh EXCEPT !.extAge = 16],
      [MuFresh EXCEPT !.ext = 1500],
      [MuFresh EXCEPT !.psReason = "STALE_METER"],
      [MuFresh EXCEPT !.psActive = TRUE, !.avail = 500] }

NoRequest == [w |-> 0, a |-> 0]

\* consumer 1 is asked for 10 A when it is a charger, else for 2000 W
MuRequests(cfg) ==
    { MuMap([k \in MuKeys |-> IF k = 1 THEN r1 ELSE r2]) :
        r1 \in { NoRequest,
                 IF cfg.consumers[1].type = "evcs" THEN [w |-> 0, a |-> 10]
                 ELSE [w |-> 2000, a |-> 0] },
        r2 \in { NoRequest, [w |-> 2000, a |-> 0] } }

WritesOk == [set |-> TRUE, enable |-> TRUE]

MuOutcomes ==
    { MuMap([k \in MuKeys |-> WritesOk]),
      MuMap([k \in MuKeys |-> IF k = 1 THEN [set |-> FALSE, enable |-> TRUE] ELSE WritesOk]),
      MuMap([k \in MuKeys |-> IF k = 2 THEN [set |-> FALSE, enable |-> TRUE] ELSE WritesOk]) }

MuEnv(x, rq, ok) ==
    [tariff |-> x.tariff, tariffAge |-> x.tariffAge, pv |-> x.pv, pvAge |-> x.pvAge,
     ext |-> x.ext, extAge |-> x.extAge, psReason |-> x.psReason,
     psActive |-> x.psActive, avail |-> x.avail, availAge |-> x.availAge,
     req |-> rq, ok |-> ok]

\* a write fails under two of the budget inputs
MuEnvs(cfg) ==
    { MuEnv(x, rq, MuMap([k \in MuKeys |-> WritesOk])) :
        x \in MuBudgetInputs, rq \in MuRequests(cfg) }
    \cup { MuEnv(x, rq, ok) :
             x \in {MuFresh, [MuFresh EXCEPT !.extAge = 16]},
             rq \in MuRequests(cfg), ok \in MuOutcomes }

\* the module takes the result r of a tick that read env
MuStore(env, r) ==
    /\ muIn' = env
    /\ muDev' = r.st.dev
    /\ muOut' = [ticked |-> TRUE, requestW |-> r.b.requestW, capW |-> r.b.capW,
                 budgetW |-> r.b.budgetW, budgetSource |-> r.b.budgetSource,
                 controlReason |-> r.b.controlReason, order |-> r.st.order,
                 c |-> r.st.res, remainingW |-> r.st.remainingW]

\* MultiUseModule.tick()
MuTick ==
    /\ \E env \in MuEnvs(muCfg) : MuStore(env, MuTickResult(muCfg, env, muConsumers, muDev))
    /\ UNCHANGED <<now, muCfg, muConsumers, cmVars, psVars, schedVars>>

\* the consumer rows of adapter.config.multiUse are changed while the
\* adapter runs
MuConfigChange ==
    /\ \E fl \in MuFleets \ {muCfg.consumers} : muCfg' = [muCfg EXCEPT !.consumers = fl]
    /\ UNCHANGED <<now, muConsumers, muDev, muIn, muOut, cmVars, psVars, schedVars>>

\* the module after construction and init(): the consumers loaded, nothing
\* written, nothing published
MuConstructed ==
    /\ muConsumers = LoadConsumersFromConfig(muCfg)
    /\ muDev = MuMap([k \in MuKeys |-> NoWrites])
    /\ muIn = MuEnv(MuFresh, MuMap([k \in MuKeys |-> NoRequest]),
                     MuMap([k \in MuKeys |-> WritesOk]))
    /\ muOut = [ticked |-> FALSE, requestW |-> 0, capW |-> 0, budgetW |-> 0,
                budgetSource |-> "NONE", controlReason |-> "OK", order |-> << >>,
                c |-> MuMap([k \in MuKeys |-> NoMuResult]), remainingW |-> 0]

\* multi-use left out: one configuration, the module as constructed
MuIdle ==
    /\ muCfg = MuConfig(0, 0, 0, <<MuLoad(1, Null)>>)
    /\ MuConstructed

\* ------------------------------------------------------------------------
\* Specifications
\* ------------------------------------------------------------------------

\* charging management on its own: the ticks of the charging-management
\* module and the clock
Init ==
    /\ now = 1
    /\ CmInit
    /\ PsIdle
    /\ SchedIdle
    /\ MuIdle

Next ==
    \/ CmTick
    \/ ClockAdvance

Spec == Init /\ [][Next]_vars

\* the budget resolver: charging-management ticks under the configurations
\* and cap values that exercise it
BudgetTick == CmTickOn(CmEnvsOf(cmCfg, BudgetInputs))

InitBudget ==
    /\ now = 1
    /\ cmCfg \in BudgetConfigs
    /\ CmConstructed
    /\ PsIdle
    /\ SchedIdle
    /\ MuIdle

NextBudget ==
    \/ BudgetTick
    \/ ClockAdvance

SpecBudget == InitBudget /\ [][NextBudget]_vars

\* the priority order: two metered chargers, either both of one priority or
\* the second of the higher one, listed in either order in cfg.wallboxes;
\* a session is kept for one second or for two
WbMetered == [WbAc1pPower EXCEPT !.hasActualPower = TRUE, !.priority = 2]

OrderConfigs ==
    { [CmConfig("mixed", "followPeakBudget", CHOOSE x \in RampSettings : x.stepW = 0,
                [k \in WbKeys |-> <<WbMetered, [WbMetered EXCEPT !.priority = p]>>[k]])
         EXCEPT !.list = l, !.sessionKeepSec = keep] :
        p \in {1, 2}, l \in { <<1, 2>>, <<2, 1>> }, keep \in {1, 2} }

OrderInputs == { [NoInput EXCEPT !.ext = 4100], [NoInput EXCEPT !.ext = 15000] }

OrderTick == CmTickOn(CmEnvsOf(cmCfg, OrderInputs))

InitOrder ==
    /\ now = 1
    /\ cmCfg \in OrderConfigs
    /\ CmConstructed
    /\ PsIdle
    /\ SchedIdle
    /\ MuIdle

NextOrder ==
    \/ OrderTick
    \/ ClockAdvance

SpecOrder == InitOrder /\ [][NextOrder]_vars

\* sessions: a metered charger with a status datapoint, which comes and goes
\* online, beside a metered charger without one; stopGraceSec is 1 s, the
\* session is kept for 2 s or 3 s
WbSession == [WbMetered EXCEPT !.hasStatus = TRUE]

SessionConfigs ==
    { [CmConfig("mixed", "followPeakBudget", CHOOSE x \in RampSettings : x.stepW = 0,
                [k \in WbKeys |-> <<WbSession, WbMetered>>[k]])
         EXCEPT !.sessionKeepSec = keep] : keep \in {2, 3} }

SessionTick == CmTickOn(CmEnvsOf(cmCfg, {[NoInput EXCEPT !.ext = 15000]}))

InitSession ==
    /\ now = 1
    /\ cmCfg \in SessionConfigs
    /\ CmConstructed
    /\ PsIdle
    /\ SchedIdle
    /\ MuIdle

NextSession ==
    \/ SessionTick
    \/ ClockAdvance

SpecSession == InitSession /\ [][NextSession]_vars

\* inputs held constant: the module ticks any number of times under a budget
\* below every minimum (every consumer is commanded 0), then the datapoints
\* take the held values (DatapointRegistry.handleStateChange) and the module
\* ticks on them for ever. The adapter's interval timer calls tick() again
\* and again, hence the weak fairness of HeldTick.
HeldConfigs ==
    { CmConfig("mixed", "followPeakBudget", r, [k \in WbKeys |-> fl[k]]) :
        r \in RampSettings,
        fl \in { <<WbAc3pCurrent, WbAc1pPower>>, <<WbAc1pPower, WbDcPower>>,
                 <<WbDcPower, WbDcCurrent>> } }

ZeroInput == [NoInput EXCEPT !.ext = 1000]

HeldInputs ==
    { NoInput, [NoInput EXCEPT !.ext = 4100], [NoInput EXCEPT !.ext = 8000],
      [NoInput EXCEPT !.ext = 15000] }

\* the datapoint cache cmIn as a tick finds it: every wallbox online
HeldEnv == CmEnv(cmIn, [k \in WbKeys |-> TRUE], [k \in WbKeys |-> Null])

ZeroTick ==
    /\ now = 1
    /\ CmTickOn({CmEnv(ZeroInput, [k \in WbKeys |-> TRUE], [k \in WbKeys |-> Null])})

HoldInputs ==
    /\ now = 1
    /\ now' = 2
    /\ cmIn' \in HeldInputs
    /\ UNCHANGED <<cmCfg, chargingSinceMs, chargingLastActiveMs, chargingLastSeenMs,
                   lastCmdTargetW, lastCmdTargetA, cmOut, psVars, schedVars,
                   muVars>>

HeldTick ==
    /\ now >= 2
    /\ CmTickOn({HeldEnv})

InitHeld ==
    /\ now = 1
    /\ cmCfg \in HeldConfigs
    /\ CmConstructed
    /\ PsIdle
    /\ SchedIdle
    /\ MuIdle

NextHeld ==
    \/ ZeroTick
    \/ HoldInputs
    \/ HeldTick
    \/ ClockAdvance

SpecHeld == InitHeld /\ [][NextHeld]_vars /\ WF_vars(HeldTick)

\* time passes between two peak-shaving ticks
PsClockAdvance ==
    /\ now < PsMaxNow
    /\ now' = now + 1
    /\ UNCHANGED <<cmVars, psVars, schedVars, muVars>>

\* peak shaving on its own
InitPS ==
    /\ now = 1
    /\ CmIdle
    /\ psCfg \in PsConfigs
    /\ PsConstructed
    /\ SchedIdle
    /\ MuIdle

NextPS ==
    \/ PsTick /\ UNCHANGED <<cmVars, schedVars, muVars>>
    \/ PsClockAdvance

SpecPS == InitPS /\ [][NextPS]_vars

\* peak shaving with actuators
InitAct ==
    /\ now = 1
    /\ CmIdle
    /\ psCfg \in ActConfigs
    /\ PsConstructed
    /\ SchedIdle
    /\ MuIdle

NextAct ==
    \/ ActTick /\ UNCHANGED <<cmVars, schedVars, muVars>>
    \/ PsClockAdvance

SpecAct == InitAct /\ [][NextAct]_vars

\* peak shaving on the datapoint cache: the window means are in use, the
\* window length is 1 s or 3 s and changes while the adapter runs
MeterConfigs ==
    { [PsConfig(TRUE, "static", TRUE, pm[1], pm[2], 1, 1) EXCEPT !.smoothingSeconds = sm] :
        sm \in {1, 3}, pm \in { <<"off", 0>>, <<"enforce", 160>> } }

\* the cache entry of ps.gridPowerW as a tick finds it: no state cached yet
\* (age +Infinity), a state with the value null, one with a text that is no
\* number, and a number
MeterReadings ==
    { [raw |-> JsNull, age |-> Infinity], [raw |-> JsNull, age |-> 0],
      [raw |-> Null, age |-> 0], [raw |-> 6000, age |-> 0] }

\* the cached raw values of ps.l1A, ps.l2A, ps.l3A
MeterPhases == { <<JsNull, JsNull, JsNull>>, <<200, 100, 210>> }

MeterKeys == <<"ps.l1A", "ps.l2A", "ps.l3A">>

\* the keys tick() upserts: ps.gridPowerW, and the phase keys when their ids
\* are set
MeterRegistry(cfg) ==
    [entries |-> {"ps.gridPowerW"}
                    \cup (IF cfg.hasPhaseIds THEN {"ps.l1A", "ps.l2A", "ps.l3A"} ELSE {})]

\* "Measurements": what dp.getNumber(key, null) makes of the cache
MeterEnv(cfg, g, l) ==
    [grid |-> getNumber(MeterRegistry(cfg), [val |-> [k \in {"ps.gridPowerW"} |-> g.raw]],
                        "ps.gridPowerW"),
     gridAge |-> g.age,
     l |-> AsSeq([i \in 1..3 |->
                    getNumber(MeterRegistry(cfg),
                              [val |-> [k \in {MeterKeys[i]} |-> l[i]]], MeterKeys[i])], 3),
     allowed |-> Null, meas |-> << >>]

MeterEnvs(cfg) ==
    { MeterEnv(cfg, g, l) :
        g \in MeterReadings,
        l \in IF cfg.hasPhaseIds THEN MeterPhases ELSE { <<JsNull, JsNull, JsNull>> } }

MeterTick == PsTickOn(MeterEnvs(psCfg))

\* the admin changes smoothingSeconds; the next tick reads it
MeterConfigChange ==
    /\ \E sm \in {1, 3} \ {psCfg.smoothingSeconds} :
          psCfg' = [psCfg EXCEPT !.smoothingSeconds = sm]
    /\ UNCHANGED <<now, cmVars, schedVars, muVars, psStatus, psPendingSince,
                   psActiveSince, psWasActive, psWinPower, psWinPhase, psWinMax,
                   psIn, psOut, psBaselines, actState, actEpisode>>

InitMeter ==
    /\ now = 1
    /\ CmIdle
    /\ psCfg \in MeterConfigs
    /\ PsConstructed
    /\ SchedIdle
    /\ MuIdle

NextMeter ==
    \/ MeterTick /\ UNCHANGED <<cmVars, schedVars, muVars>>
    \/ MeterConfigChange
    \/ PsClockAdvance

SpecMeter == InitMeter /\ [][NextMeter]_vars

\* the scheduler on its own
InitSched ==
    /\ now = 1
    /\ CmIdle
    /\ PsIdle
    /\ enabledModules \in EnabledSets
    /\ AdapterConstructed
    /\ MuIdle

NextSched ==
    \/ OnReadyBegin /\ UNCHANGED <<now, cmVars, psVars, muVars>>
    \/ OnReadyStart /\ UNCHANGED <<now, cmVars, psVars, muVars>>
    \/ TimerFire /\ UNCHANGED <<now, cmVars, psVars, muVars>>
    \/ ModuleTickReturns /\ UNCHANGED <<now, cmVars, psVars, muVars>>
    \/ ModuleTickThrows /\ UNCHANGED <<now, cmVars, psVars, muVars>>
    \/ LastTickWritten /\ UNCHANGED <<now, cmVars, psVars, muVars>>
    \/ OnUnload /\ UNCHANGED <<now, cmVars, psVars, muVars>>

SpecSched == InitSched /\ [][NextSched]_vars

\* removed wallboxes: two metered chargers, of which the first can be taken
\* out of cfg.wallboxes; mode mixed (pause behaviour rampDownToZero) or off;
\* the ticks run into the normal, the stale, the paused and the off path,
\* and the clock can pass the cleanup period in one step
RemovalConfigs ==
    { [CmConfig(mode, "rampDownToZero", CHOOSE x \in RampSettings : x.stepW = 0,
                [k \in WbKeys |-> WbMetered])
         EXCEPT !.list = l] : mode \in {"mixed", "off"}, l \in { <<1, 2>>, <<2>> } }

RemovalInputs ==
    { [NoInput EXCEPT !.ext = 15000], [NoInput EXCEPT !.gridAge = 16],
      [NoInput EXCEPT !.peakActive = TRUE] }

RemovalTick ==
    /\ \E env \in CmEnvsOf(cmCfg, RemovalInputs) :
          /\ CmStore(ListedTickResult(cmCfg, env, now, chargingSinceMs,
                                      chargingLastActiveMs, chargingLastSeenMs,
                                      lastCmdTargetW, lastCmdTargetA, cmOut))
          /\ cmIn' = [env.in EXCEPT !.gridAge = GridAge(cmCfg, env)]
    /\ UNCHANGED <<now, cmCfg, psVars, schedVars, muVars>>

\* the row of wallbox 1 is deleted from the configuration
WallboxRemoved ==
    /\ cmCfg.list = <<1, 2>>
    /\ cmCfg' = [cmCfg EXCEPT !.list = <<2>>]
    /\ UNCHANGED <<now, chargingSinceMs, chargingLastActiveMs, chargingLastSeenMs,
                   lastCmdTargetW, lastCmdTargetA, cmIn, cmOut, psVars, schedVars, muVars>>

\* more than the cleanup period passes without a tick
CleanupPeriodPasses ==
    /\ now <= MaxNow
    /\ now' = now + SessionCleanupStale(cmCfg) + 1
    /\ UNCHANGED <<cmVars, psVars, schedVars, muVars>>

InitRemoval ==
    /\ now = 1
    /\ cmCfg \in RemovalConfigs
    /\ cmCfg.list = <<1, 2>>
    /\ CmConstructed
    /\ PsIdle
    /\ SchedIdle
    /\ MuIdle

NextRemoval ==
    \/ RemovalTick
    \/ WallboxRemoved
    \/ ClockAdvance
    \/ CleanupPeriodPasses

SpecRemoval == InitRemoval /\ [][NextRemoval]_vars

\* multi-use with and without budget sources: a charger with a power
\* setpoint (deadband 50 W), with or without an enable datapoint, beside a
\* load; the tariff and PV keys, the external limit key and the comfort
\* budget are configured or not; no write throws
MuOpenConfigs ==
    { [MuConfig(0, 0, 50, <<[MuEvcsPower(1, Null) EXCEPT !.hasEnable = en], MuLoad(2, Null)>>)
         EXCEPT !.hasTariffKey = src, !.hasPvKey = src, !.hasExternalKey = ext,
                !.comfortBudgetW = comfort] :
        en \in BOOLEAN, src \in BOOLEAN, ext \in BOOLEAN, comfort \in {Null, 5000} }

MuOpenEnvs ==
    { MuEnv(x, MuMap([k \in MuKeys |-> IF k = 1 THEN r1 ELSE r2]),
            MuMap([k \in MuKeys |-> WritesOk])) :
        x \in { MuFresh, [MuFresh EXCEPT !.ext = 1500],
                [MuFresh EXCEPT !.psActive = TRUE, !.avail = 500] },
        r1 \in { NoRequest, [w |-> 2000, a |-> 0], [w |-> 2020, a |-> 0] },
        r2 \in { NoRequest, [w |-> 2000, a |-> 0] } }

MuOpenTick ==
    /\ \E env \in MuOpenEnvs : MuStore(env, MuTickResult(muCfg, env, muConsumers, muDev))
    /\ UNCHANGED <<now, muCfg, muConsumers, cmVars, psVars, schedVars>>

InitMuOpen ==
    /\ now = 1
    /\ CmIdle
    /\ PsIdle
    /\ SchedIdle
    /\ muCfg \in MuOpenConfigs
    /\ MuConstructed

NextMuOpen == MuOpenTick

SpecMuOpen == InitMuOpen /\ [][NextMuOpen]_vars

\* multi-use on its own: the ticks of the multi-use module and changes of
\* the configured consumer rows
InitMU ==
    /\ now = 1
    /\ CmIdle
    /\ PsIdle
    /\ SchedIdle
    /\ muCfg \in MuConfigs
    /\ MuConstructed

NextMU ==
    \/ MuTick
    \/ MuConfigChange

SpecMU == InitMU /\ [][NextMU]_vars



\* ------------------------------------------------------------------------
\* Charging management: properties
\* ------------------------------------------------------------------------

\* the bounds of wallbox k under the configuration in force
BoundsOf(k) == WbBounds(cmCfg, cmCfg.wallboxes[k])

\* wallbox k is controlled by current
IsCurrentBased(k) == BoundsOf(k).controlBasis = "currentA" /\ cmCfg.wallboxes[k].hasSetA

\* the last tick ran the allocation loop
Allocated == cmOut.path \in {"normal", "follow"}

\* the power commanded in the last tick, summed over the consumers commanded
RECURSIVE SumCmdW(_)
SumCmdW(S) ==
    IF S = {} THEN 0
    ELSE LET k == CHOOSE x \in S : TRUE
         IN (IF cmOut.wb[k].apply THEN cmOut.wb[k].cmdW ELSE 0) + SumCmdW(S \ {k})

\* C1: after a tick with a finite effective budget, the power commanded in
\* that tick, summed over the consumers commanded, is at most the budget.
C1_BudgetConservation ==
    (Allocated /\ IsFinite(cmOut.budgetW)) => SumCmdW(WbKeys) <= cmOut.budgetW

\* the last tick ran with a stale grid meter and control not off
StaleTick ==
    /\ cmOut.path # "none"
    /\ cmCfg.mode # "off"
    /\ cmIn.gridAge > StaleTimeoutSec(cmCfg)

\* wallbox k was commanded 0 W / 0 A with reason STALE_METER
StaleCommand(k) ==
    /\ cmOut.wb[k].cmdW = 0
    /\ cmOut.wb[k].cmdA = 0
    /\ cmOut.wb[k].reason = "STALE_METER"

\* C2 as stated: after a tick (mode not off) that found the grid-power
\* datapoint older than staleTimeoutSec, every enabled and online consumer
\* has 0 W / 0 A, reason STALE_METER and a setpoint write attempted.
C2_StaleFailsafeWritesAll ==
    StaleTick =>
        \A k \in WbKeys :
            (cmOut.wb[k].enabled /\ cmOut.wb[k].online) =>
                StaleCommand(k) /\ cmOut.wb[k].write

\* C2, amended: after such a tick every enabled and online consumer has
\* 0 W / 0 A, reason STALE_METER and applySetpoint called with them; the
\* setpoint write is attempted for those that have a setpoint datapoint
\* (control basis other than none).
C2_StaleFailsafe ==
    StaleTick =>
        \A k \in WbKeys :
            (cmOut.wb[k].enabled /\ cmOut.wb[k].online) =>
                /\ StaleCommand(k)
                /\ cmOut.wb[k].apply
                /\ (BoundsOf(k).controlBasis # "none" => cmOut.wb[k].write)

\* a stale tick zeroes a consumer whose command memory holds a nonzero
\* setpoint, while peak shaving is not pausing
C2_Witness ==
    /\ StaleTick
    /\ \E k \in WbKeys :
          /\ cmOut.wb[k].enabled /\ cmOut.wb[k].online /\ cmOut.wb[k].write
          /\ IsFinite(lastCmdTargetW[k]) /\ lastCmdTargetW[k] > 0

\* C4: the value commanded to a consumer is 0 or at least its effective
\* minimum: minA under current-based control, minPW otherwise.
C4_MinimumEnforced ==
    \A k \in WbKeys :
        cmOut.wb[k].apply =>
            IF IsCurrentBased(k)
            THEN cmOut.wb[k].cmdA = 0 \/ cmOut.wb[k].cmdA >= BoundsOf(k).minA
            ELSE cmOut.wb[k].cmdW = 0 \/ cmOut.wb[k].cmdW >= BoundsOf(k).minPW

\* the ramp left a consumer under its minimum, and it was commanded 0
C4_Witness ==
    /\ Allocated
    /\ \E k \in WbKeys :
          /\ cmOut.wb[k].apply /\ ~IsCurrentBased(k)
          /\ BoundsOf(k).minPW > 0
          /\ cmOut.wb[k].stepTarget >= BoundsOf(k).minPW
          /\ IsFinite(cmOut.wb[k].prevCmd)
          /\ cmOut.wb[k].prevCmd + cmCfg.maxDeltaWPerTick < BoundsOf(k).minPW
          /\ cmOut.wb[k].cmdW = 0

\* C5: with maxDeltaWPerTick > 0, from one tick that commanded a consumer to
\* the next tick that commands it, the commanded power rises by at most
\* maxDeltaWPerTick.
C5_RampUpBound ==
    [][\A k \in WbKeys :
          (cmCfg.maxDeltaWPerTick > 0 /\ cmOut.wb[k].apply /\ cmOut'.wb[k].apply)
              => cmOut'.wb[k].cmdW - cmOut.wb[k].cmdW <= cmCfg.maxDeltaWPerTick]_vars

\* the value commanded to wallbox k in the unit of its control basis
Commanded(k) == IF IsCurrentBased(k) THEN cmOut.wb[k].cmdA ELSE cmOut.wb[k].cmdW

\* C6: when the stepped target of a consumer (floored to the step, zeroed
\* under the minimum) is at or below its last commanded value, the consumer
\* is commanded exactly that target.
C6_DecreaseNotLimited ==
    \A k \in WbKeys :
        (Allocated /\ cmOut.wb[k].apply /\ IsFinite(cmOut.wb[k].prevCmd)
         /\ cmOut.wb[k].stepTarget <= cmOut.wb[k].prevCmd)
            => Commanded(k) = cmOut.wb[k].stepTarget

\* a consumer dropped to 0 in one tick by more than the ramp allows upwards
C6_Witness ==
    /\ Allocated
    /\ cmCfg.maxDeltaWPerTick > 0
    /\ \E k \in WbKeys :
          /\ cmOut.wb[k].apply /\ ~IsCurrentBased(k)
          /\ IsFinite(cmOut.wb[k].prevCmd)
          /\ cmOut.wb[k].prevCmd - cmOut.wb[k].stepTarget > cmCfg.maxDeltaWPerTick
          /\ cmOut.wb[k].cmdW = 0

\* ------------------------------------------------------------------------
\* Charging management: properties of the budget
\* ------------------------------------------------------------------------

\* the datapoint cache and state store the last tick found
LastEnv == CmEnv(cmIn, [k \in WbKeys |-> TRUE], [k \in WbKeys |-> Null])

\* no consumer was commanded a nonzero value in the last tick
NothingCommanded ==
    \A k \in WbKeys : cmOut.wb[k].apply => (cmOut.wb[k].cmdW = 0 /\ cmOut.wb[k].cmdA = 0)

\* the last tick read a cap of the budget mode in force with the value 0 W
ZeroCapRead ==
    \/ cmCfg.totalBudgetMode \in {"engine", "fromDatapoint"} /\ cmIn.ext = 0
    \/ cmCfg.totalBudgetMode = "fromPeakShaving" /\ cmIn.peakBudget = 0
    \/ cmCfg.totalBudgetMode = "engine" /\ cmIn.peakActive /\ cmIn.peakBudget = 0
    \/ cmCfg.totalBudgetMode = "engine" /\ cmIn.tariff = 0

\* C11: after a tick that read a budget cap with the value 0 W (external
\* budget, peak-shaving headroom, tariff cap) the budget is 0 and no consumer
\* is commanded a nonzero value.
C11_ZeroCapMeansZeroBudget ==
    (Allocated /\ ZeroCapRead) => (cmOut.budgetW = 0 /\ NothingCommanded)

\* C12: after a tick in which grid charging was not allowed, the budget the
\* allocation used is at most the PV-surplus cap, whichever budget mode and
\* also when the pause followed the peak-shaving budget.
C12_PvCapWhenGridBlocked ==
    (Allocated /\ ~GridChargeAllowed(cmCfg, LastEnv))
        => cmOut.budgetW <= PvCapW(cmCfg, LastEnv)

\* a cap is present when its value is a finite number >= 0
CapPresent(w) == IF IsFinite(w) /\ w >= 0 THEN {w} ELSE {}

\* the caps present in the last tick: static configuration, external budget,
\* peak-shaving headroom while peak shaving is active, tariff cap, PV surplus
\* while PV-only is in force
CapsPresent ==
         (IF StaticMaxW(cmCfg) > 0 THEN {StaticMaxW(cmCfg)} ELSE {})
    \cup CapPresent(cmIn.ext)
    \cup (IF cmIn.peakActive THEN CapPresent(cmIn.peakBudget) ELSE {})
    \cup CapPresent(cmIn.tariff)
    \cup (IF EffectivePvSurplusOnly(cmCfg, LastEnv)
            THEN CapPresent(PvCapW(cmCfg, LastEnv)) ELSE {})

\* C13: in budget mode 'engine' the budget of a tick that ran the normal
\* allocation is the minimum of the caps present, and unlimited exactly
\* when none is present.
C13_EngineMinOfCaps ==
    (cmCfg.totalBudgetMode = "engine" /\ cmOut.path = "normal")
        => cmOut.budgetW = SetMin(CapsPresent)

\* the cache and store of the last tick without the peak-shaving headroom
LastEnvWithoutPeakBudget ==
    CmEnv([cmIn EXCEPT !.peakBudget = Null], [k \in WbKeys |-> TRUE],
          [k \in WbKeys |-> Null])

\* C14: after a tick in which peak shaving was not active, the budget is
\* the one the tick would have used without the peak-shaving headroom
\* figure.
C14_PeakCapOnlyWhenActive ==
    (cmCfg.totalBudgetMode = "engine" /\ cmOut.path = "normal" /\ ~cmIn.peakActive)
        => cmOut.budgetW = BudgetW(cmCfg, LastEnvWithoutPeakBudget)

\* the wbList entry of wallbox k while it is online
EntryOf(k) == WbEntryOf(k, cmCfg.wallboxes[k], BoundsOf(k), TRUE, FALSE, NoSession)

\* the target (W) the allocation loop gives wallbox k out of remainingW
TargetOutOf(w, remainingW) == ConvertToA(w, RawTarget(w, remainingW)).targetW

\* C19: in a tick over two consumers the first gets its target out of the
\* budget, and the second gets its target out of the budget less the value
\* commanded to the first (not less the first one's target).
C19_AccountingByCommand ==
    (Allocated /\ Len(cmOut.order) = 2) =>
        /\ cmOut.wb[cmOut.order[1]].rawTargetW
              = TargetOutOf(EntryOf(cmOut.order[1]), cmOut.budgetW)
        /\ cmOut.wb[cmOut.order[2]].rawTargetW
              = TargetOutOf(EntryOf(cmOut.order[2]),
                            IF IsFinite(cmOut.budgetW)
                            THEN Max(0, cmOut.budgetW - cmOut.wb[cmOut.order[1]].cmdW)
                            ELSE cmOut.budgetW)

\* the first consumer was commanded less than its target, and the second
\* got more than the budget less that target would have given it
C19_Witness ==
    /\ Allocated /\ Len(cmOut.order) = 2 /\ IsFinite(cmOut.budgetW)
    /\ cmOut.wb[cmOut.order[1]].cmdW < cmOut.wb[cmOut.order[1]].rawTargetW
    /\ cmOut.wb[cmOut.order[2]].cmdW > 0
    /\ cmOut.wb[cmOut.order[2]].rawTargetW
          > TargetOutOf(EntryOf(cmOut.order[2]),
                        Max(0, cmOut.budgetW - cmOut.wb[cmOut.order[1]].rawTargetW))

\* the wallbox loop of the last tick saw wallbox k charging: its session
\* exists and was active within stopGraceSec of that tick
ChargingAtTick(k) ==
    /\ cmOut.wb[k].enabled /\ cmOut.wb[k].online
    /\ IsFinite(chargingSinceMs[k]) /\ IsFinite(chargingLastActiveMs[k])
    /\ chargingLastSeenMs[k] - chargingLastActiveMs[k] <= cmCfg.stopGraceSec

\* the priority of wallbox k as the sort reads it
PriorityOf(k) == clamp(num(cmCfg.wallboxes[k].priority, 999), 1, 999)

\* wallbox a is to come before wallbox b: charging first, then the earlier
\* chargingSinceMs, then the lower priority, then the lower key
ComesBefore(a, b) ==
    \/ ChargingAtTick(a) /\ ~ChargingAtTick(b)
    \/ /\ ChargingAtTick(a) /\ ChargingAtTick(b)
       /\ chargingSinceMs[a] < chargingSinceMs[b]
    \/ /\ ChargingAtTick(a) = ChargingAtTick(b)
       /\ ChargingAtTick(a) => chargingSinceMs[a] = chargingSinceMs[b]
       /\ \/ PriorityOf(a) < PriorityOf(b)
          \/ PriorityOf(a) = PriorityOf(b) /\ a < b

\* C25: the order of an allocating tick holds exactly the enabled and
\* online consumers, each once, the charging ones first, then by earliest
\* chargingSinceMs, then by ascending priority, then by ascending key.
C25_ProcessingOrder ==
    Allocated =>
        /\ \A k \in WbKeys :
              (cmOut.wb[k].enabled /\ cmOut.wb[k].online)
                  <=> \E i \in 1..Len(cmOut.order) : cmOut.order[i] = k
        /\ \A i, j \in 1..Len(cmOut.order) :
              i < j => ComesBefore(cmOut.order[i], cmOut.order[j])

\* both consumers charge, the one of the lower priority since earlier, and
\* it is processed first
C25_Witness ==
    /\ Allocated /\ Len(cmOut.order) = 2
    /\ ChargingAtTick(1) /\ ChargingAtTick(2)
    /\ chargingSinceMs[cmOut.order[1]] < chargingSinceMs[cmOut.order[2]]
    /\ PriorityOf(cmOut.order[1]) > PriorityOf(cmOut.order[2])

\* the order of the wallboxes in cfg.wallboxes turned round
Reverse(list) == [i \in 1..Len(list) |-> list[Len(list) + 1 - i]]

\* what a tick on the present maps publishes and writes when it reads env
\* and the wallboxes are listed in the order list
RunOut(env, list) ==
    CmTickResult([cmCfg EXCEPT !.list = list], env, now, chargingSinceMs,
                 chargingLastActiveMs, lastCmdTargetW, lastCmdTargetA, cmOut).out

\* two runs agree in the order and in every target
SameRun(a, b) ==
    /\ a.order = b.order
    /\ \A k \in WbKeys : a.wb[k].cmdW = b.wb[k].cmdW /\ a.wb[k].cmdA = b.wb[k].cmdA

\* C26: two runs on the same consumer snapshots, the same budget and the
\* same module give the same order and the same targets, in whichever
\* order the snapshots are listed.
C26_SameOrderAndTargets ==
    \A env \in CmEnvsOf(cmCfg, OrderInputs) :
        SameRun(RunOut(env, cmCfg.list), RunOut(env, Reverse(cmCfg.list)))

\* two consumers that tie in charging state, session and priority were
\* processed in the order of their keys, against the order of the list,
\* and only the first got power
C26_Witness ==
    /\ Allocated /\ cmOut.order = <<1, 2>> /\ cmCfg.list = <<2, 1>>
    /\ PriorityOf(1) = PriorityOf(2)
    /\ ChargingAtTick(1) = ChargingAtTick(2)
    /\ ChargingAtTick(1) => chargingSinceMs[1] = chargingSinceMs[2]
    /\ cmOut.wb[1].cmdW > 0 /\ cmOut.wb[2].cmdW = 0

\* C27: from one state of the module to the next, the chargingSinceMs of a
\* session that exists in both does not decrease.
C27_SinceNeverDecreases ==
    [][\A k \in WbKeys :
          (IsFinite(chargingSinceMs[k]) /\ IsFinite(chargingSinceMs'[k]))
              => chargingSinceMs'[k] >= chargingSinceMs[k]]_vars

\* a session that has lasted over several ticks
C27_Witness ==
    \E k \in WbKeys :
        /\ IsFinite(chargingSinceMs[k])
        /\ chargingSinceMs[k] < chargingLastActiveMs[k]
        /\ chargingLastActiveMs[k] < chargingLastSeenMs[k]

\* the step is a tick that finds the session of wallbox k no more than
\* sessionKeepMs after its last activity; the wallbox was online at the tick
\* before, no more than stopGraceMs ago, so it has not been offline for
\* longer than that
SessionDue(k) ==
    /\ now' = now
    /\ cmCfg.wallboxes[k].enabled
    /\ IsFinite(chargingSinceMs[k]) /\ IsFinite(chargingLastActiveMs[k])
    /\ now - chargingLastActiveMs[k] <= SessionKeep(cmCfg)
    /\ cmOut.wb[k].online
    /\ now - chargingLastSeenMs[k] <= cmCfg.stopGraceSec

\* C35: a tick keeps the session and its chargingSinceMs when the last
\* activity is no more than sessionKeepMs ago and the consumer has not been
\* offline for longer than stopGraceMs; a session gets a new chargingSinceMs
\* only when the last activity is more than sessionKeepMs ago.
C35_SessionKeptThroughDrop ==
    [][\A k \in WbKeys :
          /\ SessionDue(k) => chargingSinceMs'[k] = chargingSinceMs[k]
          /\ (/\ IsFinite(chargingSinceMs[k]) /\ IsFinite(chargingSinceMs'[k])
              /\ chargingSinceMs'[k] # chargingSinceMs[k])
                => now - chargingLastActiveMs[k] > SessionKeep(cmCfg)]_vars

\* wallbox k has no row in the configuration and was last seen by a tick
\* more than the cleanup period ago, if ever
RemovedForLong(k) ==
    /\ ~Listed(cmCfg, k)
    /\ IsFinite(chargingLastSeenMs[k]) =>
          now - chargingLastSeenMs[k] > SessionCleanupStale(cmCfg)

\* C40: after a tick, on whichever path, none of the five per-wallbox maps
\* holds the key of a wallbox that has been out of the configuration for
\* longer than the cleanup period.
C40_RemovedConsumerForgotten ==
    [][(now' = now /\ cmCfg' = cmCfg) =>
         \A k \in WbKeys :
            RemovedForLong(k) =>
               /\ chargingSinceMs'[k] = Null
               /\ chargingLastActiveMs'[k] = Null
               /\ chargingLastSeenMs'[k] = Null
               /\ lastCmdTargetW'[k] = Null
               /\ lastCmdTargetA'[k] = Null]_vars

\* the last tick ran with peak shaving active, pausing configured and the
\* pause behaviour rampDownToZero
PauseTick ==
    /\ cmOut.path # "none"
    /\ cmIn.peakActive
    /\ cmCfg.pauseWhenPeakShavingActive
    /\ cmCfg.pauseBehavior = "rampDownToZero"

\* C20 as stated: after such a tick every enabled and online consumer has
\* 0 W / 0 A and a setpoint write attempted.
C20_PauseWritesAll ==
    PauseTick =>
        \A k \in WbKeys :
            (cmOut.wb[k].enabled /\ cmOut.wb[k].online) =>
                /\ cmOut.wb[k].cmdW = 0 /\ cmOut.wb[k].cmdA = 0
                /\ cmOut.wb[k].write

\* C20, amended: after such a tick with mode not off every enabled and
\* online consumer has 0 W / 0 A and applySetpoint called with them; the
\* write is attempted for those that have a setpoint datapoint.
C20_PauseRampDown ==
    (PauseTick /\ cmCfg.mode # "off") =>
        \A k \in WbKeys :
            (cmOut.wb[k].enabled /\ cmOut.wb[k].online) =>
                /\ cmOut.wb[k].cmdW = 0 /\ cmOut.wb[k].cmdA = 0
                /\ cmOut.wb[k].apply
                /\ (BoundsOf(k).controlBasis # "none" => cmOut.wb[k].write)

\* a paused tick zeroes a consumer whose command memory holds a nonzero
\* setpoint
C20_Witness ==
    /\ PauseTick /\ cmOut.path = "paused"
    /\ \E k \in WbKeys :
          /\ cmOut.wb[k].write /\ cmOut.wb[k].cmdW = 0
          /\ IsFinite(lastCmdTargetW[k]) /\ lastCmdTargetW[k] > 0

\* the tick on the held inputs out of the command memory lastW, lastA
HeldResult(lastW, lastA) == CmTickResult(cmCfg, HeldEnv, now, chargingSinceMs, chargingLastActiveMs, lastW, lastA, cmOut)

\* what a cold start (empty command memory) reaches on the held inputs
ColdResult == HeldResult(NoEntries, NoEntries)

\* a warm start: the command memory holds the setpoints reached before
WarmResult == HeldResult(ColdResult.lastW, ColdResult.lastA)

SameCommands(out) ==
    \A k \in WbKeys :
        (cmOut.wb[k].enabled /\ out.wb[k].apply) =>
            /\ cmOut.wb[k].apply
            /\ cmOut.wb[k].cmdW = out.wb[k].cmdW
            /\ cmOut.wb[k].cmdA = out.wb[k].cmdA

\* the tick on the held inputs changes nothing: r is what it yields
SettledOn(r) ==
    /\ r.out = cmOut
    /\ r.lastW = lastCmdTargetW /\ r.lastA = lastCmdTargetA
    /\ r.since = chargingSinceMs /\ r.active = chargingLastActiveMs

\* further ticks on the held inputs repeat the commands of the last one
Settled == SettledOn(HeldResult(lastCmdTargetW, lastCmdTargetA))

\* C18: once the inputs are held, the ticks that started from an empty
\* command memory or from one in which every consumer was last commanded 0
\* settle only on what a warm start commands on these inputs (a state the
\* ticks settle on is repeated for ever, so any other settled state is
\* never left and the warm allocation is never commanded).
C18_SettlesOnWarm == (now >= 2 /\ Settled) => SameCommands(WarmResult.out)

\* ------------------------------------------------------------------------
\* Multi-use: properties
\* ------------------------------------------------------------------------

\* the ids of a list of consumers
MuIds(consumers) == [i \in 1..Len(consumers) |-> consumers[i].id]

\* the consumer with id k that the last tick processed
MuConsumerOf(k) == muConsumers[CHOOSE i \in 1..Len(muConsumers) : muConsumers[i].id = k]

MuProcessed == {k \in MuKeys : muOut.c[k].processed}

\* consumer k has a setpoint datapoint that applySetpoint writes
MuHasSetpoint(k) ==
    IF MuConsumerOf(k).type = "load" THEN MuConsumerOf(k).hasSetW
    ELSE /\ muOut.c[k].basis # "none"
         /\ MuConsumerOf(k).hasSetW \/ MuConsumerOf(k).hasSetA

\* the last tick handed consumer k's setpoint to writeNumber
MuSetpointTried(k) ==
    muOut.c[k].called /\ (muOut.c[k].writes.setW # Null \/ muOut.c[k].writes.setA # Null)

\* writeNumber returned false for consumer k's setpoint
MuSetpointFailed(k) ==
    muOut.c[k].called /\ (muOut.c[k].writes.setW = 0 \/ muOut.c[k].writes.setA = 0)

\* C21: a consumer whose setpoint write failed is reported with applied =
\* false and status write_failed, and every consumer after it in the order
\* that has a setpoint datapoint still has its write attempted in the tick.
C21_WriteFailureReported ==
    muOut.ticked =>
        \A i \in 1..Len(muOut.order) :
            (MuHasSetpoint(muOut.order[i]) /\ MuSetpointFailed(muOut.order[i])) =>
                /\ ~muOut.c[muOut.order[i]].applied
                /\ muOut.c[muOut.order[i]].status = "write_failed"
                /\ \A j \in (i + 1)..Len(muOut.order) :
                      MuHasSetpoint(muOut.order[j]) => MuSetpointTried(muOut.order[j])

\* the last value that reached consumer k's setpoint datapoint is 0
MuSetpointAtZero(k) ==
    IF muOut.c[k].writes.setA # Null
    THEN IsNumber(muDev[k].valA) /\ muDev[k].valA.num = 0
    ELSE muDev[k].valW = 0

\* C22: after a tick in which no write threw, a consumer with a setpoint
\* datapoint for which applySetpoint was called with the target 0 has 0 as
\* the last value written to that datapoint.
C22_ZeroIsDriven ==
    (muOut.ticked /\ \A k \in MuKeys : muIn.ok[k].set /\ muIn.ok[k].enable) =>
        \A k \in MuProcessed :
            (/\ muOut.c[k].called /\ MuHasSetpoint(k)
             /\ muOut.c[k].allocatedW = 0 /\ ~FracPositive(muOut.c[k].allocatedA))
                => MuSetpointAtZero(k)

\* a budget datapoint of the last tick was older than the stale timeout
MuTelemetryStale ==
    \/ muCfg.hasTariffKey /\ muIn.tariffAge > muCfg.staleTimeoutSec
    \/ muCfg.hasPvKey /\ muIn.pvAge > muCfg.staleTimeoutSec
    \/ muCfg.hasExternalKey /\ muIn.extAge > muCfg.staleTimeoutSec

\* C23: in a tick that finds a configured budget datapoint (tariff, PV or
\* external limit) stale, every consumer with a setpoint datapoint that asks
\* for power is allocated 0, has 0 handed to its setpoint datapoint and, when
\* that write is made, carries the reason STALE_METER.
C23_StaleForcesZero ==
    (muOut.ticked /\ MuTelemetryStale) =>
        \A k \in MuProcessed :
            (MuHasSetpoint(k) /\ (muOut.c[k].reqTargetW > 0 \/ muOut.c[k].reqTargetA > 0)) =>
                /\ muOut.c[k].allocatedW = 0 /\ ~FracPositive(muOut.c[k].allocatedA)
                /\ MuSetpointTried(k)
                /\ muOut.c[k].applied => muOut.c[k].reason = "STALE_METER"

RECURSIVE MuSumAllocatedW(_)
MuSumAllocatedW(S) ==
    IF S = {} THEN 0
    ELSE muOut.c[CHOOSE k \in S : TRUE].allocatedW + MuSumAllocatedW(S \ {CHOOSE k \in S : TRUE})

\* C24: the allocated power of the last tick, summed over the consumers, is
\* at most the effective budget of that tick, and the allocated power of a
\* current-controlled consumer is the power of its allocated current.
C24_SumWithinBudget ==
    muOut.ticked =>
        /\ MuSumAllocatedW(MuKeys) <= muOut.budgetW
        /\ \A k \in MuProcessed :
              FracPositive(muOut.c[k].allocatedA)
                  => muOut.c[k].allocatedW * muOut.c[k].allocatedA.den
                        = muOut.c[k].allocatedA.num * MuVFactor(muCfg)

\* a current-controlled consumer got whole steps of current, less than the
\* budget, and the consumer after it got nothing out of the rest
C24_Witness ==
    /\ muOut.ticked /\ Len(muOut.order) = 2 /\ muCfg.stepA > 0
    /\ muOut.c[muOut.order[1]].basis = "currentA"
    /\ muOut.c[muOut.order[1]].allocatedW > 0
    /\ muOut.c[muOut.order[1]].allocatedW < muOut.budgetW
    /\ muOut.c[muOut.order[1]].allocatedW < muOut.c[muOut.order[1]].requestedW
    /\ muOut.c[muOut.order[2]].requestedW > 0
    /\ muOut.c[muOut.order[2]].allocatedW = 0

\* a step of MultiUseModule.tick()
MuTicked == muCfg' = muCfg /\ <<muIn, muOut, muDev>>' # <<muIn, muOut, muDev>>

\* C28: every multi-use tick allocates over exactly the consumers that are
\* configured at that tick.
C28_TickUsesConfiguredConsumers ==
    [][MuTicked => muOut'.order = MuIds(LoadConsumersFromConfig(muCfg'))]_vars

\* C38: once onUnload has run, no scheduler round is started any more and
\* the interval timer is not armed, at whatever point of start-up or of a
\* round in flight the unload came.
C38_NoRoundAfterUnload ==
    [][unloaded => (Len(rounds') <= Len(rounds) /\ timer' # "armed")]_vars

\* the setpoint write of consumer k in this tick is held back by the deadband:
\* its target is closer than deadbandW to the value last written
MuHeldByDeadband(k) ==
    /\ muOut'.c[k].called
    /\ muOut'.c[k].basis = "powerW"
    /\ muDev[k].lastW # Null
    /\ muCfg.deadbandW > 0
    /\ Abs(muOut'.c[k].allocatedW - muDev[k].lastW) < muCfg.deadbandW

\* C36: in a tick where no write throws, a charger whose power setpoint is
\* already in effect (the target lies within the deadband of the value last
\* written, so the write is held back) is reported with applied = true.
C36_DeadbandIsUnchanged ==
    [][MuTicked =>
         \A i \in 1..Len(muConsumers) :
            (/\ muConsumers[i].type = "evcs"
             /\ muIn'.ok[muConsumers[i].id] = WritesOk
             /\ MuHeldByDeadband(muConsumers[i].id))
            => muOut'.c[muConsumers[i].id].applied]_vars

\* C37: with no tariff key, no PV key and no comfort budget configured and
\* no cap in force (no external limit key, peak shaving not active, meter
\* not stale), every consumer of a tick is allocated its full request.
C37_NothingConfiguredIsUnlimited ==
    (/\ muOut.ticked
     /\ ~muCfg.hasTariffKey /\ ~muCfg.hasPvKey /\ muCfg.comfortBudgetW = Null
     /\ ~muCfg.hasExternalKey /\ ~muIn.psActive /\ muIn.psReason # "STALE_METER")
    => \A k \in MuKeys :
          muOut.c[k].processed => muOut.c[k].allocatedW = muOut.c[k].requestedW

\* ------------------------------------------------------------------------
\* Peak shaving: properties
\* ------------------------------------------------------------------------

ActivateDelayS == clamp(num(psCfg.activateDelaySeconds, 2), 0, 3600)

\* the step is a peak-shaving tick (a tick publishes a new lastUpdate)
PsTicked == psOut'.lastUpdate # psOut.lastUpdate

\* the tick of this step found violationNow, as every tick since
\* pendingSince did, and the activation delay has passed since pendingSince
DelayedActivation ==
    /\ psOut'.violationNow
    /\ psOut'.violationSince # Null
    /\ psOut'.violationSince <= psPendingSince
    /\ now - psPendingSince >= ActivateDelayS

\* a tick during pending_on without violationNow takes the engine back to
\* inactive and resets pendingSince
PendingOnReset ==
    (psStatus = "pending_on" /\ PsTicked /\ ~psOut'.violationNow)
        => (psStatus' = "inactive" /\ psPendingSince' = 0)

\* C7 as stated: with activateDelaySec > 0 the engine becomes active only in
\* a tick with violationNow, held at every tick since pendingSince, and with
\* now - pendingSince >= activateDelaySec; a tick during pending_on without
\* violationNow returns it to inactive and resets pendingSince.
C7_ActivationDelayAnyEntry ==
    [][ActivateDelayS > 0 =>
          /\ (psStatus # "active" /\ psStatus' = "active") => DelayedActivation
          /\ PendingOnReset]_vars

\* C7, amended: with activateDelaySec > 0 the engine becomes active out of
\* inactive or pending_on only in a tick with violationNow, held at every
\* tick since pendingSince, and with now - pendingSince >= activateDelaySec;
\* out of pending_off it becomes active again in a tick in which the release
\* condition does not hold; a tick during pending_on without violationNow
\* returns it to inactive and resets pendingSince.
C7_ActivationDelay ==
    [][ActivateDelayS > 0 =>
          /\ (psStatus \in {"inactive", "pending_on"} /\ psStatus' = "active")
                => (psStatus = "pending_on" /\ DelayedActivation)
          /\ (psStatus = "pending_off" /\ psStatus' = "active")
                => ~psOut'.releaseConditionNow
          /\ PendingOnReset]_vars

\* the engine became active out of pending_on, the delay over, after an
\* earlier pending_on had been reset
C7_Witness ==
    /\ ActivateDelayS > 0
    /\ psOut.prevStatus = "pending_on"
    /\ psStatus = "active"
    /\ psPendingSince > 1
    /\ psOut.violationSince = psPendingSince
    /\ psOut.lastUpdate - psPendingSince >= ActivateDelayS

\* C8: with phaseMode enforce, a tick that finds a phase violation leaves an
\* active engine active.
C8_PhaseViolationKeepsActive ==
    [][(PhaseMode(psCfg) = "enforce" /\ psStatus = "active" /\ PsTicked
        /\ psOut'.phaseViolation) => psStatus' = "active"]_vars

\* an active engine stayed active on a phase violation while the effective
\* power was at or below limitW - hysteresisW
C8_Witness ==
    /\ PhaseMode(psCfg) = "enforce"
    /\ psOut.prevStatus = "active"
    /\ psStatus = "active"
    /\ psOut.phaseViolation
    /\ psOut.limitW > 0
    /\ IsNumber(psOut.effectivePower)
    /\ psOut.underPowerRelease

\* C9: a tick that finds the grid-power value older than the stale timeout
\* publishes the reason STALE_METER, and it leaves an active engine active.
C9_StaleMeterFailsafe ==
    [][(PsTicked /\ psIn'.gridAge > psCfg.staleTimeoutSec)
          => /\ psOut'.reason = "STALE_METER"
             /\ psStatus = "active" => psStatus' = "active"]_vars

\* the samples of a window that are at most maxSeconds old at the time t
InWindow(samples, maxSeconds, t) == SelectSeq(samples, LAMBDA x : x.t >= t - maxSeconds)

\* C31: after every tick the windows whose means the tick read hold only
\* samples that are at most smoothingSeconds old at the time of the tick.
C31_MeanOverWindowOnly ==
    [][PsTicked =>
         /\ psWinPower' = InWindow(psWinPower', SmoothingSeconds(psCfg), now)
         /\ \A i \in 1..3 :
               psWinPhase'[i] = InWindow(psWinPhase'[i], SmoothingSeconds(psCfg), now)]_vars

\* C39: a tick that finds the key ps.gridPowerW mapped and no state cached
\* for it gets the fallback from getNumber and pushes no grid-power sample.
C39_NoValueIsNoZero ==
    [][(PsTicked /\ psIn'.gridAge = Infinity) =>
          \A i \in 1..Len(psWinPower') : psWinPower'[i].t # now]_vars

ReleaseDelayS == clamp(num(psCfg.releaseDelaySeconds, 5), 0, 3600)

\* C33: with releaseDelaySec > 0 the engine becomes inactive out of active
\* or pending_off only out of pending_off, in a tick with the release
\* condition, held at every tick since pendingSince, and with
\* now - pendingSince >= releaseDelaySec; a tick during pending_off without
\* the release condition returns it to active.
C33_ReleaseDelay ==
    [][ReleaseDelayS > 0 =>
          /\ (psStatus \in {"active", "pending_off"} /\ psStatus' = "inactive") =>
                /\ psStatus = "pending_off"
                /\ psOut'.releaseConditionNow
                /\ psOut'.releaseSince # Null
                /\ psOut'.releaseSince <= psPendingSince
                /\ now - psPendingSince >= ReleaseDelayS
          /\ (psStatus = "pending_off" /\ PsTicked /\ ~psOut'.releaseConditionNow)
                => psStatus' = "active"]_vars

\* the engine became inactive out of pending_off after the release
\* condition had held since the engine was active, for the delay or longer
C33_Witness ==
    /\ ReleaseDelayS > 0
    /\ psOut.prevStatus = "pending_off"
    /\ psStatus = "inactive"
    /\ psOut.releaseSince # Null
    /\ psOut.releaseSince > psActiveSince
    /\ psActiveSince > 0
    /\ psOut.lastUpdate - psOut.releaseSince >= ReleaseDelayS

\* the edges of the engine under the delays of the configuration
StatusEdges ==
    { <<"inactive", "pending_on">>, <<"pending_on", "inactive">>,
      <<"pending_on", "active">>, <<"active", "pending_off">>,
      <<"pending_off", "active">>, <<"pending_off", "inactive">> }
    \cup (IF ActivateDelayS = 0 THEN { <<"inactive", "active">> } ELSE {})
    \cup (IF ReleaseDelayS = 0 THEN { <<"active", "inactive">> } ELSE {})

\* C34: before its first tick the engine is inactive, and a tick changes the
\* status only along inactive -> pending_on, inactive -> active (only with
\* activateDelay = 0), pending_on -> inactive, pending_on -> active,
\* active -> pending_off, active -> inactive (only with releaseDelay = 0),
\* pending_off -> active, pending_off -> inactive; no other step changes it.
C34_StatusEdges ==
    [][/\ psOut.lastUpdate = 0 => psStatus = "inactive"
       /\ psStatus' # psStatus => (PsTicked /\ <<psStatus, psStatus'>> \in StatusEdges)]_vars

\* the engine went from active to inactive in one tick, as releaseDelay is 0
C34_Witness ==
    /\ ReleaseDelayS = 0
    /\ psOut.prevStatus = "active"
    /\ psStatus = "inactive"

EpisodeOver == psStatus = "inactive" /\ actEpisode.count > 0

\* C15: after a shaving episode, with the engine inactive again, every
\* actuator written during the episode has the setpoint and the enable
\* state it had before the episode began, and no baseline is stored.
C15_RestoredAfterEpisode ==
    EpisodeOver =>
        /\ \A i \in actEpisode.written : actState[i] = actEpisode.before[i]
        /\ psBaselines = NoBaselines(psCfg.actuators)

\* C16: in a tick that makes the engine active every stored baseline was
\* captured in that tick (the store was emptied before), and in a tick that
\* keeps it active every baseline stored before stays as it is.
C16_BaselinesPerEpisode ==
    [][PsTicked =>
         /\ (psOut'.active /\ ~psWasActive) =>
               \A i \in DOMAIN psBaselines' :
                   psBaselines'[i].set => psBaselines'[i].at = now
         /\ (psOut'.active /\ psWasActive) =>
               \A i \in DOMAIN psBaselines :
                   psBaselines[i].set => psBaselines'[i] = psBaselines[i]]_vars

\* in the second episode or later, a tick that was not the first of the
\* episode wrote actuator i and left its baseline as captured
C16_Witness ==
    /\ psStatus = "active" /\ actEpisode.count >= 2
    /\ \E i \in DOMAIN psBaselines :
          /\ psBaselines[i].set /\ psBaselines[i].at < psOut.lastUpdate
          /\ i \in actEpisode.written
          /\ actState[i].setpoint # psBaselines[i].baseline

\* C32: a tick that leaves the engine in pending_off writes no actuator: the
\* setpoints and enable states of the shaving episode stay as they are, and
\* the baselines stay stored for the restore.
C32_ReducedWhilePendingOff ==
    [][(PsTicked /\ psStatus' = "pending_off") =>
          /\ actState' = actState
          /\ psBaselines' = psBaselines]_vars

\* requiredReductionW of the last tick (the configurations with actuators
\* have no phase limit)
LastReqW ==
    WholeW(RequiredReductionW(psCfg, psOut.powerViolation, psOut.effectivePower,
                              psOut.limitW, [k |-> "", over |-> Frac(0, 1)]))

\* the last tick was active and had a reduction to apply
Applying == psOut.active /\ psCfg.actuationEnabled /\ LastReqW > 0

\* actuator i comes before actuator j: ascending priority, then ascending id
ActBefore(i, j) ==
    \/ psCfg.actuators[i].priority < psCfg.actuators[j].priority
    \/ psCfg.actuators[i].priority = psCfg.actuators[j].priority /\ i < j

LimitMode(i) == psCfg.actuators[i].mode \in {"limitW", "limitA"}

\* the configured minimum of actuator i
ActMin(i) == IF IsFinite(psCfg.actuators[i].min) THEN psCfg.actuators[i].min ELSE 0

\* the baseline of actuator i within its configured range
ActBaseW(i) ==
    clamp(psBaselines[i].baseline, ActMin(i),
          IF IsFinite(psCfg.actuators[i].max) THEN psCfg.actuators[i].max
          ELSE psBaselines[i].baseline)

HasBaseline(i) == psBaselines[i].set /\ IsFinite(psBaselines[i].baseline)

\* the reduction taken from limit-mode actuator i
ActUsedW(i) ==
    IF LimitMode(i) /\ HasBaseline(i) /\ psCfg.actuators[i].hasSetpoint
    THEN ActBaseW(i) - actState[i].setpoint ELSE 0

RECURSIVE SumUsedW(_)
SumUsedW(S) ==
    IF S = {} THEN 0
    ELSE ActUsedW(CHOOSE i \in S : TRUE) + SumUsedW(S \ {CHOOSE i \in S : TRUE})

\* the reduction still to find when the loop comes to actuator j
RemainingAt(j) == LastReqW - SumUsedW({i \in DOMAIN actState : ActBefore(i, j)})

C30_OnOffHalfOfNeed ==
    [][(PsTicked /\ Applying') =>
         \A j \in DOMAIN actState :
             (psCfg.actuators[j].mode = "onOff" /\ actState[j].enabled = 1
                /\ RemainingAt(j)' > 0)
                 => (actState'[j].enabled = 0
                       <=> 2 * AssumedW(psCfg.actuators[j], Null) >= RemainingAt(j)')]_vars

\* ------------------------------------------------------------------------
\* Scheduler: properties
\* ------------------------------------------------------------------------

\* two rounds wait inside the tick of the same module
RoundsInterleave ==
    \E i, j \in 1..Len(rounds) :
        /\ i # j
        /\ rounds[i].pc = "module" /\ rounds[j].pc = "module"
        /\ rounds[i].idx = rounds[j].idx

\* C3: at most one call of ModuleManager.tick() is in progress, so no two
\* ticks of one module interleave.
C3_AtMostOneRound == Len(rounds) <= 1 /\ ~RoundsInterleave

\* C10: a round in which a module's tick threw has called, by its end, the
\* tick of every module that is switched on.
C10_TickIsolation ==
    /\ finished.threw # {} => finished.invoked = enabledModules
    /\ \A i \in 1..Len(rounds) :
          rounds[i].pc = "lastTick" => rounds[i].invoked = enabledModules

\* a round has ended in which the tick of the first module threw and the
\* ticks of the modules after it were called
C10_Witness ==
    /\ "peakShaving" \in finished.threw
    /\ {"chargingManagement", "multiUse"} \subseteq finished.invoked
    /\ enabledModules = {"peakShaving", "chargingManagement", "multiUse"}

====
